---- MODULE Spec2Model ----
(***************************************************************************)
(* State machine of the wellness-tracking Store (AppStateManager in        *)
(* src/state.js) with its persistence adapter and static catalogs          *)
(* (src/storage.js) and its input validators (src/unnamed/part_004).       *)
(*                                                                         *)
(* Conventions                                                             *)
(*  - an instant is an integer clock reading; a day has TicksPerDay        *)
(*    readings, and Date.now() is the current reading;                     *)
(*  - a calendar date is a day number; day d stands for September d 2025   *)
(*    (so 33 is 2025-10-03);                                               *)
(*  - a string that is validated or sanitized is a sequence of             *)
(*    one-character strings, so that trimming and length are computed.     *)
(***************************************************************************)
EXTENDS Integers, Sequences, FiniteSets, TLC

VARIABLES
    data,         \* AppStateManager.data: the document, or NoData for null
    storage,      \* the value under the localStorage key: NoKey, a document, or NoData for "null"
    saveTimeout,  \* AppStateManager.saveTimeout: the handle of the last timer set, or Undefined
    timers,       \* the handles of the save timers that are pending in the event loop
    now,          \* the clock reading
    events,       \* the observer events published by the last operation, in order
    saveCalls,    \* the number of save() calls made by the last operation
    lastCall,     \* the last operation called and its arguments
    lastResult,   \* what the last operation returned, or that it threw
    published,    \* history: per badge, how often badge:awarded was published (capped at 2)
    budget,       \* the number of steps left to the run
    observers,    \* StateObserver.observers: per event, the callbacks subscribed, in order
    invoked,      \* the callbacks that the last call on the bus invoked, in order
    escaped,      \* whether an exception left the last call on the bus
    report        \* what the last call of the Analytics Engine returned

vars == <<data, storage, saveTimeout, timers, now, events, saveCalls, lastCall, lastResult, published, budget,
          observers, invoked, escaped, report>>

\* The variables of the observer bus
busVars == <<observers, invoked, escaped>>

\* No call of the Analytics Engine has been made
NoReport == [method |-> "none"]

\* The variables that the observer bus leaves alone
busFrame == <<data, storage, saveTimeout, timers, now, events, saveCalls, lastResult, published, budget, report>>

(***************************************************************************)
(* Bounds of the model.                                                    *)
(***************************************************************************)
TicksPerDay == 2
MaxSteps == 3
MaxXpSteps == 2
MaxStartLevel == 6
MaxCheckInSteps == 5
MaxSubs == 3
MaxMoods == 8
MaxActiveDays == 9
MaxGoalSteps == 5
MaxChallengeSteps == 4
MaxJournalSteps == 4
MaxApptSteps == 3
MaxLivedDays == 32

(***************************************************************************)
(* JavaScript values without a TLA+ counterpart.                           *)
(***************************************************************************)
Null == -1
Undefined == -2
Space == -3
NoData == [isNull |-> TRUE]
NoKey == [absent |-> TRUE]

StartDay == 32
StartInstant == StartDay * TicksPerDay
Today == now \div TicksPerDay
DayOf(instant) == instant \div TicksPerDay

Range(seq) == {seq[i] : i \in 1..Len(seq)}
Prepend(seq, e) == <<e>> \o seq
RemoveAt(seq, i) == SubSeq(seq, 1, i - 1) \o SubSeq(seq, i + 1, Len(seq))
Count(seq, x) == Cardinality({i \in 1..Len(seq) : seq[i] = x})
NoDuplicates(seq) == \A i, j \in 1..Len(seq) : seq[i] = seq[j] => i = j

\* Array.prototype.findIndex on an id: 0 stands for -1 (not found).
FindIndexById(seq, id) ==
    IF \E i \in 1..Len(seq) : seq[i].id = id
    THEN CHOOSE i \in 1..Len(seq) :
            /\ seq[i].id = id
            /\ \A j \in 1..(i - 1) : seq[j].id # id
    ELSE 0

(***************************************************************************)
(* Static catalogs and the initial document (config part of storage.js).   *)
(***************************************************************************)
CHALLENGES ==
    << [id |-> "challenge_1", xp |-> 15],
       [id |-> "challenge_2", xp |-> 20],
       [id |-> "challenge_3", xp |-> 15],
       [id |-> "challenge_4", xp |-> 10],
       [id |-> "challenge_5", xp |-> 25] >>

BADGES == {"JOURNAL_START", "STREAK_3", "STREAK_7", "LEVEL_5", "GOAL_MASTER", "CHALLENGE_HERO"}

\* The seeded goals and journal entries carry an abbreviated text.
InitGoal(id, done) ==
    [id |-> id, title |-> <<"g", "o", "a", "l">>, completed |-> done,
     createdAt |-> Undefined, completedAt |-> Undefined]

InitEntry(id, day) ==
    [id |-> id, date |-> day, content |-> <<"t", "x", "t">>, createdAt |-> Undefined,
     mood |-> "undefined", updatedAt |-> Undefined]

InitFeeling(emotion, day) == [emotion |-> emotion, date |-> day, timestamp |-> day * TicksPerDay]
InitMood(emotion, day) == [date |-> day, mood |-> emotion]
InitSlot(day, time, free) == [date |-> <<day>>, time |-> <<time>>, available |-> free]

INITIAL_STATE ==
    [ userName |-> <<>>,
      currentDate |-> StartDay,
      userProfile |->
        [ xp |-> 120,
          level |-> 2,
          checkInStreak |-> 3,
          lastCheckInDate |-> Null,
          badges |-> <<"JOURNAL_START", "STREAK_3">>,
          completedChallenges |-> <<"challenge_1", "challenge_2">> ],
      goals |-> << InitGoal(1, TRUE), InitGoal(2, FALSE), InitGoal(3, FALSE),
                   InitGoal(4, TRUE), InitGoal(5, FALSE) >>,
      journalEntries |-> << InitEntry(1, 8), InitEntry(2, 7), InitEntry(3, 6),
                            InitEntry(4, 5), InitEntry(5, 4) >>,
      feelings |-> << InitFeeling("bom", 1), InitFeeling("neutro", 2), InitFeeling("ruim", 3),
                      InitFeeling("neutro", 4), InitFeeling("otimo", 5), InitFeeling("bom", 6),
                      InitFeeling("neutro", 7), InitFeeling("ruim", 8) >>,
      appointments |-> << [id |-> 1, date |-> <<15, Space, 14>>, status |-> "confirmed", createdAt |-> Undefined],
                          [id |-> 2, date |-> <<16, Space, 16>>, status |-> "confirmed", createdAt |-> Undefined] >>,
      availableSlots |-> << InitSlot(33, 9, TRUE), InitSlot(33, 10, FALSE), InitSlot(33, 11, TRUE),
                            InitSlot(33, 14, TRUE), InitSlot(33, 15, TRUE), InitSlot(33, 16, FALSE),
                            InitSlot(34, 22, TRUE) >>,
      moodHistory |-> << InitMood("bom", 1), InitMood("neutro", 2), InitMood("ruim", 3),
                         InitMood("neutro", 4), InitMood("otimo", 5), InitMood("bom", 6),
                         InitMood("neutro", 7), InitMood("ruim", 8) >> ]

\* JSON.parse(JSON.stringify(INITIAL_STATE))
getInitialState == INITIAL_STATE

(***************************************************************************)
(* Validators and sanitizers (src/unnamed/part_004).                       *)
(***************************************************************************)
RECURSIVE TrimLeft(_)
TrimLeft(str) ==
    IF str # <<>> /\ Head(str) = " " THEN TrimLeft(Tail(str)) ELSE str

RECURSIVE TrimRight(_)
TrimRight(str) ==
    IF str # <<>> /\ str[Len(str)] = " " THEN TrimRight(SubSeq(str, 1, Len(str) - 1)) ELSE str

\* String.prototype.trim
Trim(str) == TrimRight(TrimLeft(str))

\* VALIDATION_RULES.required: TRUE when the rule reports an error
required(value) == value = <<>> \/ Trim(value) = <<>>

\* VALIDATION_RULES.minLength / maxLength: the length of the untrimmed value
minLength(value, n) == value # <<>> /\ Len(value) < n
maxLength(value, n) == value # <<>> /\ Len(value) > n

\* SANITIZERS.text (the inputs of the model hold no script tag)
SanitizeText(str) == SubSeq(Trim(str), 1, IF Len(Trim(str)) < 10000 THEN Len(Trim(str)) ELSE 10000)

\* SANITIZERS.html: textContent read back as innerHTML escapes & < >
RECURSIVE SanitizeHtml(_)
SanitizeHtml(str) ==
    IF str = <<>> THEN <<>>
    ELSE (CASE Head(str) = "<" -> <<"&", "l", "t", ";">>
            [] Head(str) = ">" -> <<"&", "g", "t", ";">>
            [] Head(str) = "&" -> <<"&", "a", "m", "p", ";">>
            [] OTHER -> <<Head(str)>>) \o SanitizeHtml(Tail(str))

\* Validator.validateGoal: the list of errors
validateGoal(title) ==
    (IF required(title) THEN <<"required">> ELSE <<>>)
    \o (IF minLength(title, 3) THEN <<"minLength">> ELSE <<>>)
    \o (IF maxLength(title, 200) THEN <<"maxLength">> ELSE <<>>)

\* Validator.validateJournalEntry: the list of errors
validateJournalEntry(content) ==
    (IF required(content) THEN <<"required">> ELSE <<>>)
    \o (IF minLength(content, 3) THEN <<"minLength">> ELSE <<>>)
    \o (IF maxLength(content, 10000) THEN <<"maxLength">> ELSE <<>>)

\* Validator.validateField(userName, ['required', minLength 2]) of login
validateLoginName(userName) ==
    (IF required(userName) THEN <<"required">> ELSE <<>>)
    \o (IF minLength(userName, 2) THEN <<"minLength">> ELSE <<>>)

\* A date or time string is a sequence of tokens: <<33>> is "2025-10-03",
\* <<9>> is "09:00", <<>> is a missing or empty field, Space is a blank.
\* The instant of new Date(`${date}T${time || '00:00'}`), Null for an invalid
\* date; the clock readings of a day are spread evenly over its 24 hours.
ApptInstant(date, time) ==
    IF Len(date) = 1 /\ date[1] # Space /\ Len(time) <= 1 /\ (time = <<>> \/ time[1] # Space)
    THEN date[1] * TicksPerDay + (((IF time = <<>> THEN 0 ELSE time[1]) * TicksPerDay) \div 24)
    ELSE Null

\* Validator.validateAppointment: the list of errors
validateAppointment(appt, instant) ==
    (IF appt.date = <<>> THEN <<"required">> ELSE <<>>)
    \o (IF /\ appt.date # <<>>
           /\ ApptInstant(appt.date, appt.time) # Null
           /\ ApptInstant(appt.date, appt.time) < instant
        THEN <<"past">> ELSE <<>>)
    \o (IF appt.time = <<>> THEN <<"required">> ELSE <<>>)

\* String.prototype.split(' '): the pieces between the blanks
RECURSIVE Split(_)
Split(str) ==
    IF \E i \in 1..Len(str) : str[i] = Space
    THEN LET i == CHOOSE k \in 1..Len(str) : str[k] = Space /\ \A j \in 1..(k - 1) : str[j] # Space
         IN <<SubSeq(str, 1, i - 1)>> \o Split(SubSeq(str, i + 1, Len(str)))
    ELSE <<str>>

(***************************************************************************)
(* The Store's internal steps.  A context s carries the fields of the      *)
(* manager that one operation reads and writes: the document, the          *)
(* persisted document, the pending save timer, the events published and    *)
(* the number of save() calls made so far by the operation.                *)
(***************************************************************************)
\* The payload of an event published with the whole document, or with none
NoPayload == [none |-> TRUE]

\* StateObserver.notify: the callbacks run now, and the document they can read
\* through the manager is the one it holds now
notify(s, event, arg) ==
    [s EXCEPT !.events = Append(@, [name |-> event, arg |-> arg, seen |-> s.data])]

\* if (this.saveTimeout) clearTimeout(this.saveTimeout): a handle that is not
\* pending is ignored
clearSaveTimeout(s) ==
    IF s.saveTimeout # Undefined THEN [s EXCEPT !.timers = @ \ {s.saveTimeout}] ELSE s

\* The handle setTimeout returns: a positive integer that no pending timer has
NewHandle(pending) == CHOOSE h \in 1..(Cardinality(pending) + 1) :
                          h \notin pending /\ \A k \in 1..(h - 1) : k \in pending

\* save() that sets its timer without clearing the pending one
save_Stacking(s) ==
    LET h == NewHandle(s.timers)
    IN [s EXCEPT !.timers = @ \cup {h}, !.saveTimeout = h, !.saveCalls = @ + 1]

\* AppStateManager.save(), debounced: replaces the pending timer
save(s) ==
    LET s1 == clearSaveTimeout(s)
        h == NewHandle(s1.timers)
    IN [s1 EXCEPT !.timers = @ \cup {h}, !.saveTimeout = h, !.saveCalls = @ + 1]

\* AppStateManager.save(true): writes at once; ok is whether setItem succeeds
saveImmediate(s, ok) ==
    notify([clearSaveTimeout(s) EXCEPT !.saveCalls = @ + 1,
                                       !.storage = IF ok THEN s.data ELSE @],
           "state:saved", NoPayload)

RECURSIVE Pow(_, _)
Pow(b, e) == IF e = 0 THEN 1 ELSE b * Pow(b, e - 1)

\* Math.floor(100 * Math.pow(1.2, level - 1)).  The double result has the
\* same floor as the exact rational 100 * 6^n / 5^n (n = level - 1) for every
\* level up to 13; the fraction is reduced by 25 to stay within 32 bits.
xpForNextLevel(level) ==
    IF level <= 2
    THEN (100 * Pow(6, level - 1)) \div Pow(5, level - 1)
    ELSE (4 * Pow(6, level - 1)) \div Pow(5, level - 3)

\* awardBadge without its includes() test
awardBadge_Unchecked(s, badgeId) ==
    LET s1 == [s EXCEPT !.data.userProfile.badges = Append(@, badgeId)]
        s2 == IF badgeId \in BADGES THEN notify(s1, "badge:awarded", [badge |-> badgeId]) ELSE s1
    IN save(s2)

awardBadge(s, badgeId) ==
    IF badgeId \notin Range(s.data.userProfile.badges)
    THEN LET s1 == [s EXCEPT !.data.userProfile.badges = Append(@, badgeId)]
             s2 == IF badgeId \in BADGES THEN notify(s1, "badge:awarded", [badge |-> badgeId]) ELSE s1
         IN save(s2)
    ELSE s

\* checkForLevelUp without its recursive call: one level per grant
checkForLevelUp_SingleStep(s) ==
    LET requiredXp == xpForNextLevel(s.data.userProfile.level)
    IN IF s.data.userProfile.xp >= requiredXp
       THEN LET s1 == [s EXCEPT !.data.userProfile.level = @ + 1,
                                !.data.userProfile.xp = @ - requiredXp]
                s2 == notify(s1, "user:levelup", [level |-> s1.data.userProfile.level])
            IN IF s2.data.userProfile.level = 5 THEN awardBadge(s2, "LEVEL_5") ELSE s2
       ELSE s

\* checkForLevelUp that publishes one user:levelup, for the last level reached
RECURSIVE checkForLevelUp_Bundled(_)
checkForLevelUp_Bundled(s) ==
    LET requiredXp == xpForNextLevel(s.data.userProfile.level)
    IN IF s.data.userProfile.xp >= requiredXp
       THEN LET s1 == [s EXCEPT !.data.userProfile.level = @ + 1,
                                !.data.userProfile.xp = @ - requiredXp]
                more == s1.data.userProfile.xp >= xpForNextLevel(s1.data.userProfile.level)
                s2 == IF more THEN s1
                      ELSE notify(s1, "user:levelup", [level |-> s1.data.userProfile.level])
                s3 == IF s2.data.userProfile.level = 5 THEN awardBadge(s2, "LEVEL_5") ELSE s2
            IN IF more THEN checkForLevelUp_Bundled(s3) ELSE s3
       ELSE s

\* checkForLevelUp that looks at the level for LEVEL_5 after its recursive call
RECURSIVE checkForLevelUp_BadgeAtEnd(_)
checkForLevelUp_BadgeAtEnd(s) ==
    LET requiredXp == xpForNextLevel(s.data.userProfile.level)
    IN IF s.data.userProfile.xp >= requiredXp
       THEN LET s1 == [s EXCEPT !.data.userProfile.level = @ + 1,
                                !.data.userProfile.xp = @ - requiredXp]
                s2 == notify(s1, "user:levelup", [level |-> s1.data.userProfile.level])
                s3 == IF s2.data.userProfile.xp >= xpForNextLevel(s2.data.userProfile.level)
                      THEN checkForLevelUp_BadgeAtEnd(s2)
                      ELSE s2
            IN IF s3.data.userProfile.level = 5 THEN awardBadge(s3, "LEVEL_5") ELSE s3
       ELSE s

RECURSIVE checkForLevelUp(_)
checkForLevelUp(s) ==
    LET requiredXp == xpForNextLevel(s.data.userProfile.level)
    IN IF s.data.userProfile.xp >= requiredXp
       THEN LET s1 == [s EXCEPT !.data.userProfile.level = @ + 1,
                                !.data.userProfile.xp = @ - requiredXp]
                s2 == notify(s1, "user:levelup", [level |-> s1.data.userProfile.level])
                s3 == IF s2.data.userProfile.level = 5 THEN awardBadge(s2, "LEVEL_5") ELSE s2
            IN IF s3.data.userProfile.xp >= xpForNextLevel(s3.data.userProfile.level)
               THEN checkForLevelUp(s3)
               ELSE s3
       ELSE s

\* AppStateManager.addXp past its amount guard
addXp(s, amount) ==
    IF amount <= 0
    THEN s
    ELSE LET s1 == [s EXCEPT !.data.userProfile.xp = @ + amount]
             s2 == save(checkForLevelUp(s1))
         IN notify(s2, "xp:added", [amount |-> amount])

\* The date yesterday.toISOString() yields after yesterday.setDate(getDate() - 1):
\* setDate moves the local wall clock back one calendar day, which is 24 hours
\* unless the zone's offset changed in between (then 23 or 25 hours), and the
\* result is formatted in UTC; shift is the resulting displacement of the UTC date.
YesterdayStr(today, shift) == today - 1 + shift

updateCheckInStreak(s, today, shift) ==
    LET lastDate == s.data.userProfile.lastCheckInDate
    IN IF lastDate = today
       THEN s
       ELSE LET s1 == IF lastDate = YesterdayStr(today, shift)
                      THEN [s EXCEPT !.data.userProfile.checkInStreak = @ + 1]
                      ELSE [s EXCEPT !.data.userProfile.checkInStreak = 1]
                s2 == [s1 EXCEPT !.data.userProfile.lastCheckInDate = today]
                streak == s2.data.userProfile.checkInStreak
                s3 == IF streak = 3 THEN awardBadge(s2, "STREAK_3") ELSE s2
                s4 == IF streak = 7 THEN awardBadge(s3, "STREAK_7") ELSE s3
            IN save(notify(s4, "checkin:updated", [streak |-> streak]))

\* getCurrentMood that reads the first of the last three feelings
getCurrentMood_FirstOfRecent(d) ==
    IF Len(d.feelings) = 0 THEN "neutro"
    ELSE d.feelings[IF Len(d.feelings) < 3 THEN 1 ELSE Len(d.feelings) - 2].emotion

\* AppStateManager.getCurrentMood
getCurrentMood(d) ==
    IF Len(d.feelings) = 0 THEN "neutro" ELSE d.feelings[Len(d.feelings)].emotion

(***************************************************************************)
(* The Store's public methods.  Each yields the context it leaves and      *)
(* what it returns: kind is "success" or "failure" for a result object,    *)
(* "undefined" for a method that returns nothing and "throw" for an        *)
(* exception that leaves the method; id is the id of the entity returned.  *)
(***************************************************************************)
Ret(s, kind, id) == [s |-> s, result |-> [kind |-> kind, id |-> id]]

\* The TypeError of reading a property of this.data when it is null
Threw(s) == Ret(s, "throw", 0)

\* login that installs the fresh document before it validates the name
login_ResetsFirst(s, userName, ok) ==
    IF validateLoginName(userName) # <<>>
    THEN Ret([s EXCEPT !.data = getInitialState], "failure", 0)
    ELSE LET s1 == [s EXCEPT !.data = [getInitialState EXCEPT !.userName = SanitizeHtml(userName)]]
         IN Ret(notify(saveImmediate(s1, ok), "user:login", [userName |-> s1.data.userName]), "success", 0)

login(s, userName, ok) ==
    IF validateLoginName(userName) # <<>>
    THEN Ret(s, "failure", 0)
    ELSE LET s1 == [s EXCEPT !.data = [getInitialState EXCEPT !.userName = SanitizeHtml(userName)]]
         IN Ret(notify(saveImmediate(s1, ok), "user:login", [userName |-> s1.data.userName]), "success", 0)

addXpCall(s, amount) ==
    IF amount <= 0 THEN Ret(s, "undefined", 0)
    ELSE IF s.data = NoData THEN Threw(s)
    ELSE Ret(addXp(s, amount), "undefined", 0)

awardBadgeCall(s, badgeId) ==
    IF s.data = NoData THEN Threw(s) ELSE Ret(awardBadge(s, badgeId), "undefined", 0)

\* { emotion, date, timestamp, ...details }: a key of details replaces the key before it
Spread(base, details) ==
    [k \in (DOMAIN base) \cup (DOMAIN details) |->
        IF k \in DOMAIN details THEN details[k] ELSE base[k]]

recordFeeling(s, emotion, details, instant, shift) ==
    IF s.data = NoData THEN Threw(s)
    ELSE LET feeling == Spread([emotion |-> emotion, date |-> DayOf(instant), timestamp |-> instant],
                               details)
             s1 == [s EXCEPT !.data.feelings = Append(@, feeling)]
             s2 == [s1 EXCEPT !.data.moodHistory = Append(@, [date |-> feeling.date, mood |-> emotion])]
             s3 == updateCheckInStreak(s2, DayOf(instant), shift)
             s4 == save(addXp(s3, 10))
         IN Ret(notify(s4, "feeling:recorded", [streak |-> s3.data.userProfile.checkInStreak]), "success", 0)

addGoal(s, title, instant) ==
    IF validateGoal(title) # <<>> THEN Ret(s, "failure", 0)
    ELSE IF s.data = NoData THEN Threw(s)
    ELSE LET goal == [id |-> instant, title |-> SanitizeText(title), completed |-> FALSE,
                      createdAt |-> instant, completedAt |-> Undefined]
             s1 == save([s EXCEPT !.data.goals = Prepend(@, goal)])
         IN Ret(notify(s1, "goal:added", [id |-> goal.id]), "success", goal.id)

\* toggleGoal that keeps completedAt when it un-completes the goal
toggleGoal_KeepsCompletedAt(s, goalId, instant) ==
    IF s.data = NoData THEN Threw(s)
    ELSE LET i == FindIndexById(s.data.goals, goalId)
         IN IF i = 0 THEN Ret(s, "failure", 0)
            ELSE LET done == ~s.data.goals[i].completed
                     s1 == [s EXCEPT !.data.goals[i].completed = done,
                                     !.data.goals[i].completedAt = IF done THEN instant ELSE @]
                     s2 == IF done THEN addXp(s1, 50) ELSE s1
                     completedCount == Cardinality({k \in 1..Len(s2.data.goals) :
                                                        s2.data.goals[k].completed})
                     s3 == IF done /\ completedCount >= 5 THEN awardBadge(s2, "GOAL_MASTER") ELSE s2
                 IN Ret(notify(save(s3), "goal:toggled", [id |-> goalId]), "success", goalId)

\* toggleGoal that awards GOAL_MASTER when every goal is completed
toggleGoal_AllCompleted(s, goalId, instant) ==
    IF s.data = NoData THEN Threw(s)
    ELSE LET i == FindIndexById(s.data.goals, goalId)
         IN IF i = 0 THEN Ret(s, "failure", 0)
            ELSE LET done == ~s.data.goals[i].completed
                     s1 == [s EXCEPT !.data.goals[i].completed = done,
                                     !.data.goals[i].completedAt = IF done THEN instant ELSE Null]
                     s2 == IF done THEN addXp(s1, 50) ELSE s1
                     s3 == IF done /\ \A k \in 1..Len(s2.data.goals) : s2.data.goals[k].completed
                           THEN awardBadge(s2, "GOAL_MASTER") ELSE s2
                 IN Ret(notify(save(s3), "goal:toggled", [id |-> goalId]), "success", goalId)

\* toggleGoal that takes the 50 XP back when it un-completes the goal
toggleGoal_DeductsXp(s, goalId, instant) ==
    IF s.data = NoData THEN Threw(s)
    ELSE LET i == FindIndexById(s.data.goals, goalId)
         IN IF i = 0 THEN Ret(s, "failure", 0)
            ELSE LET done == ~s.data.goals[i].completed
                     s1 == [s EXCEPT !.data.goals[i].completed = done,
                                     !.data.goals[i].completedAt = IF done THEN instant ELSE Null]
                     s2 == IF done THEN addXp(s1, 50)
                           ELSE [s1 EXCEPT !.data.userProfile.xp = IF @ >= 50 THEN @ - 50 ELSE 0]
                     completedCount == Cardinality({k \in 1..Len(s2.data.goals) :
                                                        s2.data.goals[k].completed})
                     s3 == IF done /\ completedCount >= 5 THEN awardBadge(s2, "GOAL_MASTER") ELSE s2
                 IN Ret(notify(save(s3), "goal:toggled", [id |-> goalId]), "success", goalId)

toggleGoal(s, goalId, instant) ==
    IF s.data = NoData THEN Threw(s)
    ELSE LET i == FindIndexById(s.data.goals, goalId)
         IN IF i = 0 THEN Ret(s, "failure", 0)
            ELSE LET done == ~s.data.goals[i].completed
                     s1 == [s EXCEPT !.data.goals[i].completed = done,
                                     !.data.goals[i].completedAt = IF done THEN instant ELSE Null]
                     s2 == IF done THEN addXp(s1, 50) ELSE s1
                     completedCount == Cardinality({k \in 1..Len(s2.data.goals) :
                                                        s2.data.goals[k].completed})
                     s3 == IF done /\ completedCount >= 5 THEN awardBadge(s2, "GOAL_MASTER") ELSE s2
                 IN Ret(notify(save(s3), "goal:toggled", [id |-> goalId]), "success", goalId)

deleteGoal(s, goalId) ==
    IF s.data = NoData THEN Threw(s)
    ELSE LET i == FindIndexById(s.data.goals, goalId)
         IN IF i = 0 THEN Ret(s, "failure", 0)
            ELSE LET s1 == save([s EXCEPT !.data.goals = RemoveAt(@, i)])
                 IN Ret(notify(s1, "goal:deleted", [id |-> goalId]), "success", 0)

\* entryId is Null when the argument is omitted; 0 is falsy as well
saveJournalEntry(s, content, entryId, instant) ==
    IF validateJournalEntry(content) # <<>> THEN Ret(s, "failure", 0)
    ELSE IF s.data = NoData THEN Threw(s)
    ELSE IF entryId # Null /\ entryId # 0
    THEN LET i == FindIndexById(s.data.journalEntries, entryId)
         IN IF i = 0 THEN Ret(s, "failure", 0)
            ELSE LET s1 == [s EXCEPT !.data.journalEntries[i].content = SanitizeText(content),
                                     !.data.journalEntries[i].updatedAt = instant]
                 IN Ret(notify(save(s1), "journal:updated", [id |-> entryId]), "success", entryId)
    ELSE LET entry == [id |-> instant, date |-> DayOf(instant), content |-> SanitizeText(content),
                       createdAt |-> instant, mood |-> getCurrentMood(s.data),
                       updatedAt |-> Undefined]
             isFirstEntry == Len(s.data.journalEntries) = 0
             s1 == [s EXCEPT !.data.journalEntries = Prepend(@, entry)]
             s2 == addXp(s1, 25)
             s3 == IF isFirstEntry THEN awardBadge(s2, "JOURNAL_START") ELSE s2
         IN Ret(notify(save(s3), "journal:created", [id |-> entry.id]), "success", entry.id)

deleteJournalEntry(s, entryId) ==
    IF s.data = NoData THEN Threw(s)
    ELSE LET i == FindIndexById(s.data.journalEntries, entryId)
         IN IF i = 0 THEN Ret(s, "failure", 0)
            ELSE LET s1 == save([s EXCEPT !.data.journalEntries = RemoveAt(@, i)])
                 IN Ret(notify(s1, "journal:deleted", [id |-> entryId]), "success", 0)

\* completeChallenge that awards CHALLENGE_HERO from four challenges on
completeChallenge_HeroAtFour(s, challengeId) ==
    IF s.data = NoData THEN Threw(s)
    ELSE IF challengeId \in Range(s.data.userProfile.completedChallenges)
    THEN Ret(s, "failure", 0)
    ELSE IF ~\E c \in Range(CHALLENGES) : c.id = challengeId
    THEN Ret(s, "failure", 0)
    ELSE LET challenge == CHALLENGES[CHOOSE i \in 1..Len(CHALLENGES) : CHALLENGES[i].id = challengeId]
             s1 == [s EXCEPT !.data.userProfile.completedChallenges = Append(@, challengeId)]
             s2 == addXp(s1, challenge.xp)
             s3 == IF Len(s2.data.userProfile.completedChallenges) >= Len(CHALLENGES) - 1
                   THEN awardBadge(s2, "CHALLENGE_HERO") ELSE s2
         IN Ret(notify(save(s3), "challenge:completed", [challenge |-> challengeId]), "success", 0)

\* completeChallenge without its already-completed test
completeChallenge_Unguarded(s, challengeId) ==
    IF s.data = NoData THEN Threw(s)
    ELSE IF ~\E c \in Range(CHALLENGES) : c.id = challengeId
    THEN Ret(s, "failure", 0)
    ELSE LET challenge == CHALLENGES[CHOOSE i \in 1..Len(CHALLENGES) : CHALLENGES[i].id = challengeId]
             s1 == [s EXCEPT !.data.userProfile.completedChallenges = Append(@, challengeId)]
             s2 == addXp(s1, challenge.xp)
             s3 == IF Len(s2.data.userProfile.completedChallenges) = Len(CHALLENGES)
                   THEN awardBadge(s2, "CHALLENGE_HERO") ELSE s2
         IN Ret(notify(save(s3), "challenge:completed", [challenge |-> challengeId]), "success", 0)

completeChallenge(s, challengeId) ==
    IF s.data = NoData THEN Threw(s)
    ELSE IF challengeId \in Range(s.data.userProfile.completedChallenges)
    THEN Ret(s, "failure", 0)
    ELSE IF ~\E c \in Range(CHALLENGES) : c.id = challengeId
    THEN Ret(s, "failure", 0)
    ELSE LET challenge == CHALLENGES[CHOOSE i \in 1..Len(CHALLENGES) : CHALLENGES[i].id = challengeId]
             s1 == [s EXCEPT !.data.userProfile.completedChallenges = Append(@, challengeId)]
             s2 == addXp(s1, challenge.xp)
             s3 == IF Len(s2.data.userProfile.completedChallenges) = Len(CHALLENGES)
                   THEN awardBadge(s2, "CHALLENGE_HERO") ELSE s2
         IN Ret(notify(save(s3), "challenge:completed", [challenge |-> challengeId]), "success", 0)

\* The index of the first slot with that date and time, 0 when there is none
FindSlot(slots, date, time) ==
    IF \E i \in 1..Len(slots) : slots[i].date = date /\ slots[i].time = time
    THEN CHOOSE i \in 1..Len(slots) :
            /\ slots[i].date = date /\ slots[i].time = time
            /\ \A j \in 1..(i - 1) : ~(slots[j].date = date /\ slots[j].time = time)
    ELSE 0

\* scheduleAppointment that refuses a date and time without a slot
scheduleAppointment_NeedsSlot(s, appt, instant) ==
    IF validateAppointment(appt, instant) # <<>> THEN Ret(s, "failure", 0)
    ELSE IF s.data = NoData THEN Threw(s)
    ELSE LET appointment == [id |-> instant, date |-> appt.date \o <<Space>> \o appt.time,
                             status |-> "pending", createdAt |-> instant]
             i == FindSlot(s.data.availableSlots, appt.date, appt.time)
             s1 == [s EXCEPT !.data.appointments = Prepend(@, appointment)]
             s2 == IF i # 0 THEN [s1 EXCEPT !.data.availableSlots[i].available = FALSE] ELSE s1
         IN IF i = 0 THEN Ret(s, "failure", 0)
            ELSE Ret(notify(save(s2), "appointment:scheduled", [id |-> appointment.id]),
                     "success", appointment.id)

scheduleAppointment(s, appt, instant) ==
    IF validateAppointment(appt, instant) # <<>> THEN Ret(s, "failure", 0)
    ELSE IF s.data = NoData THEN Threw(s)
    ELSE LET appointment == [id |-> instant, date |-> appt.date \o <<Space>> \o appt.time,
                             status |-> "pending", createdAt |-> instant]
             s1 == [s EXCEPT !.data.appointments = Prepend(@, appointment)]
             i == FindSlot(s1.data.availableSlots, appt.date, appt.time)
             s2 == IF i # 0 THEN [s1 EXCEPT !.data.availableSlots[i].available = FALSE] ELSE s1
         IN Ret(notify(save(s2), "appointment:scheduled", [id |-> appointment.id]), "success", appointment.id)

cancelAppointment(s, appointmentId) ==
    IF s.data = NoData THEN Threw(s)
    ELSE LET index == FindIndexById(s.data.appointments, appointmentId)
         IN IF index = 0 THEN Ret(s, "failure", 0)
            ELSE LET parts == Split(s.data.appointments[index].date)
                     i == IF Len(parts) >= 2
                          THEN FindSlot(s.data.availableSlots, parts[1], parts[2])
                          ELSE 0
                     s1 == IF i # 0 THEN [s EXCEPT !.data.availableSlots[i].available = TRUE] ELSE s
                     s2 == [s1 EXCEPT !.data.appointments = RemoveAt(@, index)]
                 IN Ret(notify(save(s2), "appointment:cancelled", [id |-> appointmentId]), "success", 0)

\* new Date(currentDate + 'T00:00:00') is local midnight and toISOString() is
\* UTC: east of Greenwich local midnight falls on the previous UTC date.
changeSchedulingDate(s, direction, east) ==
    IF s.data = NoData THEN Threw(s)
    ELSE LET s1 == [s EXCEPT !.data.currentDate =
                        @ + (IF direction = "next" THEN 1 ELSE -1) - (IF east THEN 1 ELSE 0)]
         IN Ret(notify(save(s1), "scheduling:date-changed", [currentDate |-> s1.data.currentDate]), "undefined", 0)

\* ok is whether localStorage.removeItem succeeds
reset(s, ok) ==
    IF ok
    THEN Ret(notify([s EXCEPT !.storage = NoKey, !.data = NoData], "state:reset", NoPayload), "undefined", 0)
    ELSE Ret(s, "undefined", 0)

\* mergeWithDefaults: every document the Store saves has all the default keys
mergeWithDefaults(savedState) == IF savedState = NoData THEN getInitialState ELSE savedState

\* ok is whether localStorage.getItem and JSON.parse succeed
load(s, ok) ==
    LET loaded == IF ~ok \/ s.storage = NoKey THEN getInitialState ELSE mergeWithDefaults(s.storage)
    IN Ret(notify([s EXCEPT !.data = loaded], "state:loaded", NoPayload), "success", 0)

\* A timer callback that goes back to the persisted document when the write fails
saveTimerCallback_RollsBack(s, ok) ==
    IF ok
    THEN notify([s EXCEPT !.storage = s.data], "state:saved", NoPayload)
    ELSE notify([s EXCEPT !.data = mergeWithDefaults(IF s.storage = NoKey THEN NoData ELSE s.storage)],
                "state:saved", NoPayload)

\* The callback of the debounced save timer; ok is whether setItem succeeds
saveTimerCallback(s, ok) ==
    notify([s EXCEPT !.storage = IF ok THEN s.data ELSE @], "state:saved", NoPayload)

(***************************************************************************)
(* Inputs of the operations.                                               *)
(***************************************************************************)
NameInputs == { <<"A">>, <<"A", " ">>, <<"A", "n", "a">> }
XpInputs == {0, 30, 400, 600}
EmotionInputs == {"bom", "ansiedade"}
DetailInputs == { [simpleClick |-> "true"], [emotion |-> "ruim"] }
ShiftInputs == {-1, 0, 1}
TitleInputs == { <<"a", "b">>, <<"a", "b", " ">>, <<"W", "a", "l", "k">> }
ContentInputs == { <<"a">>, <<"o", "k", "!">> }
ChallengeInputs == {"challenge_1", "challenge_3", "challenge_x"}
BadgeInputs == {"STREAK_3", "STREAK_7", "NOT_A_BADGE"}
ApptInputs == { [date |-> <<33>>, time |-> <<9>>], [date |-> <<33>>, time |-> <<>>],
                [date |-> <<20>>, time |-> <<9>>] }
DirectionInputs == {"next", "prev"}

\* The ids an operation is called with: a seeded entity, the newest entity
\* and an id that no entity has
IdInputs(seq, seeded) ==
    {seeded, 99} \cup (IF data # NoData /\ Len(seq) > 0 THEN {seq[1].id} ELSE {})
GoalIdInputs == IdInputs(IF data = NoData THEN <<>> ELSE data.goals, 2)
EntryIdInputs == IdInputs(IF data = NoData THEN <<>> ELSE data.journalEntries, 1)
ApptIdInputs == IdInputs(IF data = NoData THEN <<>> ELSE data.appointments, 1)

(***************************************************************************)
(* Steps.                                                                  *)
(***************************************************************************)
\* The context an operation starts in
Ctx == [data |-> data, storage |-> storage, saveTimeout |-> saveTimeout, timers |-> timers,
        events |-> <<>>, saveCalls |-> 0]

BadgeEvents(evs, b) == Cardinality({i \in 1..Len(evs) : evs[i].name = "badge:awarded" /\ evs[i].arg = [badge |-> b]})

Step == budget > 0 /\ budget' = budget - 1

\* The operation call returned r (or threw): the manager holds r.s
Commit(r, call) ==
    /\ Step
    /\ data' = r.s.data
    /\ storage' = r.s.storage
    /\ saveTimeout' = r.s.saveTimeout
    /\ timers' = r.s.timers
    /\ events' = r.s.events
    /\ saveCalls' = r.s.saveCalls
    /\ lastCall' = call
    /\ lastResult' = r.result
    /\ published' = [b \in BADGES |->
                        IF published[b] + BadgeEvents(r.s.events, b) >= 2 THEN 2
                        ELSE published[b] + BadgeEvents(r.s.events, b)]
    /\ UNCHANGED now
    /\ UNCHANGED busVars
    /\ UNCHANGED report

Login(userName, ok) ==
    Commit(login(Ctx, userName, ok), [op |-> "login", userName |-> userName, ok |-> ok])

AddXp(amount) == Commit(addXpCall(Ctx, amount), [op |-> "addXp", amount |-> amount])

AwardBadge(badgeId) == Commit(awardBadgeCall(Ctx, badgeId), [op |-> "awardBadge", badgeId |-> badgeId])

RecordFeeling(emotion, details, shift) ==
    Commit(recordFeeling(Ctx, emotion, details, now, shift),
           [op |-> "recordFeeling", emotion |-> emotion, details |-> details, shift |-> shift])

AddGoal(title) == Commit(addGoal(Ctx, title, now), [op |-> "addGoal", title |-> title])

ToggleGoal(goalId) == Commit(toggleGoal(Ctx, goalId, now), [op |-> "toggleGoal", goalId |-> goalId])

DeleteGoal(goalId) == Commit(deleteGoal(Ctx, goalId), [op |-> "deleteGoal", goalId |-> goalId])

SaveJournalEntry(content, entryId) ==
    Commit(saveJournalEntry(Ctx, content, entryId, now),
           [op |-> "saveJournalEntry", content |-> content, entryId |-> entryId])

DeleteJournalEntry(entryId) ==
    Commit(deleteJournalEntry(Ctx, entryId), [op |-> "deleteJournalEntry", entryId |-> entryId])

CompleteChallenge(challengeId) ==
    Commit(completeChallenge(Ctx, challengeId), [op |-> "completeChallenge", challengeId |-> challengeId])

ScheduleAppointment(appt) ==
    Commit(scheduleAppointment(Ctx, appt, now), [op |-> "scheduleAppointment", appointmentData |-> appt])

CancelAppointment(appointmentId) ==
    Commit(cancelAppointment(Ctx, appointmentId), [op |-> "cancelAppointment", appointmentId |-> appointmentId])

ChangeSchedulingDate(direction, east) ==
    Commit(changeSchedulingDate(Ctx, direction, east),
           [op |-> "changeSchedulingDate", direction |-> direction])

Reset(ok) == Commit(reset(Ctx, ok), [op |-> "reset", ok |-> ok])

Load(ok) == Commit(load(Ctx, ok), [op |-> "load", ok |-> ok])

\* A pending save timer fires: the event loop drops it and runs its callback
SaveTimer(ok) ==
    \E h \in timers :
        Commit(Ret(saveTimerCallback([Ctx EXCEPT !.timers = @ \ {h}], ok), "undefined", 0),
               [op |-> "saveTimer", ok |-> ok])

\* The clock moves to its next reading
Tick ==
    /\ Step
    /\ now' = now + 1
    /\ UNCHANGED <<data, storage, saveTimeout, timers, events, saveCalls, lastCall, lastResult, published>>
    /\ UNCHANGED busVars
    /\ UNCHANGED report

\* The clock moves to the first reading of the next day
NextDay ==
    /\ Step
    /\ now' = (Today + 1) * TicksPerDay
    /\ UNCHANGED <<data, storage, saveTimeout, timers, events, saveCalls, lastCall, lastResult, published>>
    /\ UNCHANGED busVars
    /\ UNCHANGED report

(***************************************************************************)
(* The Analytics Engine (AnalyticsEngine).  A method yields the document   *)
(* it leaves in the Store and the report it returns.  The clock of the     *)
(* engine runs in UTC, so the local calendar day of an instant is DayOf.   *)
(***************************************************************************)
RECURSIVE SumSeq(_)
SumSeq(seq) == IF seq = <<>> THEN 0 ELSE Head(seq) + SumSeq(Tail(seq))

Abs(x) == IF x < 0 THEN -x ELSE x

\* Array.prototype.slice(-n)
LastN(seq, n) == IF Len(seq) <= n THEN seq ELSE SubSeq(seq, Len(seq) - n + 1, Len(seq))

RECURSIVE Reverse(_)
Reverse(seq) == IF seq = <<>> THEN <<>> ELSE Append(Reverse(Tail(seq)), Head(seq))

\* moodMap[mood]: Undefined for a key the map does not have
moodMap(mood) ==
    CASE mood = "pessimo" -> 1
      [] mood = "ruim" -> 2
      [] mood = "neutro" -> 3
      [] mood = "bom" -> 4
      [] mood = "otimo" -> 5
      [] mood = "feliz" -> 5
      [] OTHER -> Undefined

MapMoods(entries) == [i \in 1..Len(entries) |-> moodMap(entries[i].mood)]

\* The decimal digits of a natural number, as characters
RECURSIVE Digits(_)
Digits(n) ==
    LET digit == <<"0", "1", "2", "3", "4", "5", "6", "7", "8", "9">>
    IN IF n < 10 THEN <<digit[n + 1]>> ELSE Append(Digits(n \div 10), digit[(n % 10) + 1])

\* (num / den).toFixed(1) for num, den >= 0: the quotient is rounded to the
\* nearest tenth (no quotient computed here lies halfway between two tenths)
ToFixed1(num, den) ==
    LET tenths == (20 * num + den) \div (2 * den)
    IN Digits(tenths \div 10) \o <<".">> \o Digits(tenths % 10)

\* detectTrend that puts the middle value of an odd count in the first half
detectTrend_CeilSplit(values) ==
    IF Len(values) < 3 THEN "insufficient_data"
    ELSE LET n1 == (Len(values) + 1) \div 2
             n2 == Len(values) - n1
             D == SumSeq(SubSeq(values, n1 + 1, Len(values))) * n1 - SumSeq(SubSeq(values, 1, n1)) * n2
         IN IF \E i \in 1..Len(values) : values[i] = Undefined THEN "declining"
            ELSE IF 10 * Abs(D) < 3 * n1 * n2 THEN "stable"
            ELSE IF D > 0 THEN "improving" ELSE "declining"

\* AnalyticsEngine.detectTrend.  avgSecond - avgFirst is D / (n1 * n2); a
\* value that is NaN makes the difference NaN, and both tests fail on NaN
detectTrend(values) ==
    IF Len(values) < 3 THEN "insufficient_data"
    ELSE LET n1 == Len(values) \div 2
             n2 == Len(values) - n1
             D == SumSeq(SubSeq(values, n1 + 1, Len(values))) * n1 - SumSeq(SubSeq(values, 1, n1)) * n2
         IN IF \E i \in 1..Len(values) : values[i] = Undefined THEN "declining"
            ELSE IF 10 * Abs(D) < 3 * n1 * n2 THEN "stable"
            ELSE IF D > 0 THEN "improving" ELSE "declining"

\* AnalyticsEngine.countEmotions: the pairs are sorted in an array of its own
countEmotions(entries) ==
    [mood \in {entries[i].mood : i \in 1..Len(entries)} |->
        Cardinality({i \in 1..Len(entries) : entries[i].mood = mood})]

\* analyzeMoodPatterns that reverses the history in place to read its tail
analyzeMoodPatterns_ReversesInPlace(d) ==
    LET moodHistory == Reverse(d.moodHistory)
    IN IF Len(moodHistory) < 3
       THEN [doc |-> d, report |-> [method |-> "analyzeMoodPatterns", hasData |-> FALSE]]
       ELSE [doc |-> [d EXCEPT !.moodHistory = moodHistory],
             report |-> [method |-> "analyzeMoodPatterns", hasData |-> TRUE,
                         trend |-> detectTrend(MapMoods(LastN(d.moodHistory, 7))),
                         emotionCounts |-> countEmotions(LastN(d.moodHistory, 30))]]

\* AnalyticsEngine.analyzeMoodPatterns (trend and emotion counts)
analyzeMoodPatterns(d) ==
    LET moodHistory == d.moodHistory
    IN IF Len(moodHistory) < 3
       THEN [doc |-> d, report |-> [method |-> "analyzeMoodPatterns", hasData |-> FALSE]]
       ELSE LET last7Days == LastN(moodHistory, 7)
                last30Days == LastN(moodHistory, 30)
            IN [doc |-> d,
                report |-> [method |-> "analyzeMoodPatterns", hasData |-> TRUE,
                            trend |-> detectTrend(MapMoods(last7Days)),
                            emotionCounts |-> countEmotions(last30Days)]]

\* AnalyticsEngine.analyzeProductivity (goal counts)
analyzeProductivity(d) ==
    [doc |-> d,
     report |-> [method |-> "analyzeProductivity",
                 totalGoals |-> Len(d.goals),
                 completedGoals |-> Len(SelectSeq(d.goals, LAMBDA g : g.completed)),
                 completedChallenges |-> Len(d.userProfile.completedChallenges)]]

\* The day number of the given day of a month of 2025 (September 1 is day 1)
DayNumber(month, dayOfMonth) ==
    << -243, -212, -184, -153, -123, -92, -62, -31, 0, 30, 61, 91 >>[month] + dayOfMonth

\* new Date(e.createdAt || e.date).  An entry made by saveJournalEntry has
\* its createdAt instant.  A seeded entry has only date, "0d/09/2025" (kept
\* here as d), which Date reads as month d, day 9, at local midnight;
\* Undefined stands for an Invalid Date.
EntryInstant(e) ==
    IF e.createdAt # Undefined THEN e.createdAt
    ELSE IF e.date \in 1..12 THEN DayNumber(e.date, 9) * TicksPerDay
    ELSE Undefined

\* analyzeEngagement that counts the records of the window, not their days
analyzeEngagement_CountsRecords(d, instant) ==
    LET last30Days == instant - 30 * TicksPerDay
        recentJournal == {i \in 1..Len(d.journalEntries) :
                            /\ EntryInstant(d.journalEntries[i]) # Undefined
                            /\ EntryInstant(d.journalEntries[i]) >= last30Days}
        recentFeelings == {i \in 1..Len(d.feelings) : d.feelings[i].timestamp >= last30Days}
        activeDays == Cardinality(recentJournal) + Cardinality(recentFeelings)
    IN [doc |-> d,
        report |-> [method |-> "analyzeEngagement",
                    checkInStreak |-> d.userProfile.checkInStreak,
                    activeDays |-> activeDays,
                    engagementRate |-> ToFixed1(activeDays * 100, 30),
                    totalJournalEntries |-> Len(d.journalEntries),
                    totalFeelings |-> Len(d.feelings)]]

\* AnalyticsEngine.analyzeEngagement
analyzeEngagement(d, instant) ==
    LET last30Days == instant - 30 * TicksPerDay
        recentJournalDays == {DayOf(EntryInstant(d.journalEntries[i])) :
                                i \in {j \in 1..Len(d.journalEntries) :
                                         /\ EntryInstant(d.journalEntries[j]) # Undefined
                                         /\ EntryInstant(d.journalEntries[j]) >= last30Days}}
        recentFeelingDays == {DayOf(d.feelings[i].timestamp) :
                                i \in {j \in 1..Len(d.feelings) : d.feelings[j].timestamp >= last30Days}}
        activeDays == recentJournalDays \cup recentFeelingDays
    IN [doc |-> d,
        report |-> [method |-> "analyzeEngagement",
                    checkInStreak |-> d.userProfile.checkInStreak,
                    activeDays |-> Cardinality(activeDays),
                    engagementRate |-> ToFixed1(Cardinality(activeDays) * 100, 30),
                    totalJournalEntries |-> Len(d.journalEntries),
                    totalFeelings |-> Len(d.feelings)]]

\* AnalyticsEngine.generateFullReport: the three analyses, one after the other
generateFullReport(d, instant) ==
    LET mood == analyzeMoodPatterns(d)
        productivity == analyzeProductivity(mood.doc)
        engagement == analyzeEngagement(productivity.doc, instant)
    IN [doc |-> engagement.doc,
        report |-> [method |-> "generateFullReport",
                    mood |-> mood.report,
                    productivity |-> productivity.report,
                    engagement |-> engagement.report]]

\* AnalyticsEngine.translateTrend
translateTrend(trend) ==
    CASE trend = "improving" -> "Melhorando"
      [] trend = "declining" -> "Declinando"
      [] trend = "stable" -> "Estavel"
      [] trend = "insufficient_data" -> "Dados insuficientes"
      [] OTHER -> trend

\* AnalyticsEngine.exportReportAsText: the lines that depend on the analyses
exportReportAsText(d, instant) ==
    LET full == generateFullReport(d, instant)
    IN [doc |-> full.doc,
        report |-> [method |-> "exportReportAsText",
                    lines |-> (IF full.report.mood.hasData
                               THEN <<translateTrend(full.report.mood.trend)>>
                               ELSE <<>>)
                              \o <<"PRODUTIVIDADE">>]]

(***************************************************************************)
(* The observer bus (StateObserver).  A callback is named after what it    *)
(* does when it is invoked: it returns, it throws, it calls the            *)
(* unsubscribe function that its subscription returned, or it subscribes   *)
(* one more callback to the event being delivered.                         *)
(***************************************************************************)
BusEvents == {"xp:added", "user:levelup"}
Callbacks == {"returns", "throws", "unsubscribes", "subscribes"}

\* Array.prototype.filter(cb => cb !== callback)
Without(seq, cb) == SelectSeq(seq, LAMBDA x : x # cb)

\* StateObserver.subscribe
subscribe(obs, event, callback) == [obs EXCEPT ![event] = Append(@, callback)]

\* The function subscribe returned for (event, callback)
unsubscribe(obs, event, callback) == [obs EXCEPT ![event] = Without(@, callback)]

\* What the body of a callback does to the subscriptions
Body(obs, event, callback) ==
    CASE callback = "unsubscribes" -> unsubscribe(obs, event, callback)
      [] callback = "subscribes" ->
            IF Len(obs[event]) < MaxSubs THEN subscribe(obs, event, "returns") ELSE obs
      [] OTHER -> obs

\* The same delivery without the try/catch around each callback
RECURSIVE Deliver_NoCatch(_, _, _, _, _)
Deliver_NoCatch(arr, i, obs, event, log) ==
    IF i > Len(arr)
    THEN [observers |-> obs, invoked |-> log, escaped |-> FALSE]
    ELSE IF arr[i] = "throws"
         THEN [observers |-> obs, invoked |-> Append(log, arr[i]), escaped |-> TRUE]
         ELSE Deliver_NoCatch(arr, i + 1, Body(obs, event, arr[i]), event, Append(log, arr[i]))

\* forEach over the array that notify read: its first Len(arr) elements are
\* visited even when a callback replaces or extends this.observers[event]
RECURSIVE Deliver(_, _, _, _, _)
Deliver(arr, i, obs, event, log) ==
    IF i > Len(arr)
    THEN [observers |-> obs, invoked |-> log, escaped |-> FALSE]
    ELSE Deliver(arr, i + 1, Body(obs, event, arr[i]), event, Append(log, arr[i]))

BusInit ==
    /\ observers = [e \in BusEvents |-> <<>>]
    /\ invoked = <<>>
    /\ escaped = FALSE

Subscribe(event, callback) ==
    /\ Len(observers[event]) < MaxSubs
    /\ observers' = subscribe(observers, event, callback)
    /\ lastCall' = [op |-> "subscribe"]
    /\ invoked' = <<>>
    /\ escaped' = FALSE
    /\ UNCHANGED busFrame

Unsubscribe(event, callback) ==
    /\ callback \in Range(observers[event])
    /\ observers' = unsubscribe(observers, event, callback)
    /\ lastCall' = [op |-> "unsubscribe"]
    /\ invoked' = <<>>
    /\ escaped' = FALSE
    /\ UNCHANGED busFrame

\* StateObserver.notify(event, data)
Publish(event) ==
    /\ LET r == Deliver(observers[event], 1, observers, event, <<>>)
       IN /\ observers' = r.observers
          /\ invoked' = r.invoked
          /\ escaped' = r.escaped
    /\ lastCall' = [op |-> "notify", event |-> event]
    /\ UNCHANGED busFrame

NextBus ==
    \/ \E event \in BusEvents, callback \in Callbacks : Subscribe(event, callback)
    \/ \E event \in BusEvents, callback \in Callbacks : Unsubscribe(event, callback)
    \/ \E event \in BusEvents : Publish(event)

(***************************************************************************)
(* The session starts when App.init() has called load() on the manager     *)
(* just constructed, in a browser whose storage holds no document.         *)
(***************************************************************************)
InitWith(steps) ==
    /\ data = getInitialState
    /\ storage = NoKey
    /\ saveTimeout = Undefined
    /\ timers = {}
    /\ now = StartInstant
    /\ events = << [name |-> "state:loaded", arg |-> NoPayload, seen |-> getInitialState] >>
    /\ saveCalls = 0
    /\ lastCall = [op |-> "load", ok |-> TRUE]
    /\ lastResult = [kind |-> "success", id |-> 0]
    /\ published = [b \in BADGES |-> 0]
    /\ budget = steps
    /\ BusInit
    /\ report = NoReport

Init == InitWith(MaxSteps)

Next ==
    \/ \E userName \in NameInputs, ok \in BOOLEAN : Login(userName, ok)
    \/ \E amount \in XpInputs : AddXp(amount)
    \/ \E badgeId \in BadgeInputs : AwardBadge(badgeId)
    \/ \E emotion \in EmotionInputs, details \in DetailInputs, shift \in ShiftInputs :
            RecordFeeling(emotion, details, shift)
    \/ \E title \in TitleInputs : AddGoal(title)
    \/ \E goalId \in GoalIdInputs : ToggleGoal(goalId)
    \/ \E goalId \in GoalIdInputs : DeleteGoal(goalId)
    \/ \E content \in ContentInputs, entryId \in EntryIdInputs \cup {Null} :
            SaveJournalEntry(content, entryId)
    \/ \E entryId \in EntryIdInputs : DeleteJournalEntry(entryId)
    \/ \E challengeId \in ChallengeInputs : CompleteChallenge(challengeId)
    \/ \E appt \in ApptInputs : ScheduleAppointment(appt)
    \/ \E appointmentId \in ApptIdInputs : CancelAppointment(appointmentId)
    \/ \E direction \in DirectionInputs, east \in BOOLEAN : ChangeSchedulingDate(direction, east)
    \/ \E ok \in BOOLEAN : Reset(ok)
    \/ \E ok \in BOOLEAN : Load(ok)
    \/ \E ok \in BOOLEAN : SaveTimer(ok)
    \/ Tick
    \/ NextDay

Spec == Init /\ [][Next]_vars

(***************************************************************************)
(* Leveling as a function: the session starts on a document whose level    *)
(* and xp are any normalized pair, and XP is granted.                      *)
(***************************************************************************)
XpStarts(level) ==
    {0, 1, xpForNextLevel(level) \div 2, xpForNextLevel(level) - 1}

XpAmounts == {1, 10, 50, 100, 400, 1000}

InitXp ==
    /\ \E level \in 1..MaxStartLevel : \E xp0 \in XpStarts(level) :
          data = [getInitialState EXCEPT !.userProfile.level = level, !.userProfile.xp = xp0]
    /\ events = << [name |-> "state:loaded", arg |-> NoPayload, seen |-> data] >>
    /\ storage = NoKey
    /\ saveTimeout = Undefined
    /\ timers = {}
    /\ now = StartInstant
    /\ saveCalls = 0
    /\ lastCall = [op |-> "load", ok |-> TRUE]
    /\ lastResult = [kind |-> "success", id |-> 0]
    /\ published = [b \in BADGES |-> 0]
    /\ budget = MaxXpSteps
    /\ BusInit
    /\ report = NoReport

NextXp == \E amount \in XpAmounts : AddXp(amount)

SpecXp == InitXp /\ [][NextXp]_vars

(***************************************************************************)
(* Daily check-ins only: feelings are recorded while the days pass.        *)
(***************************************************************************)
InitCheckIn == InitWith(MaxCheckInSteps)

NextCheckIn ==
    \/ \E emotion \in EmotionInputs, details \in DetailInputs, shift \in ShiftInputs :
            RecordFeeling(emotion, details, shift)
    \/ Tick
    \/ NextDay

SpecCheckIn == InitCheckIn /\ [][NextCheckIn]_vars

(***************************************************************************)
(* The observer bus on its own: callbacks are subscribed and unsubscribed  *)
(* and events are published, on a Store that is left alone.                *)
(***************************************************************************)
InitBus == InitWith(0)

SpecBus == InitBus /\ [][NextBus]_vars

(***************************************************************************)
(* The Analytics Engine on the documents of a Store that has been used.    *)
(* For the mood analysis the document comes from storage with any mood     *)
(* history of the labels in MoodInputs (StorageManager.importData installs *)
(* the text of any file).  For the engagement analysis the document is     *)
(* the one the Store has built when, from the first day on, a feeling was  *)
(* recorded on the days in F and a journal entry was saved on the days in  *)
(* J, and its save timer has fired.                                        *)
(***************************************************************************)
MoodInputs == {"pessimo", "bom", "feliz"}

MoodHistories == UNION { [1..n -> MoodInputs] : n \in 0..MaxMoods }

Imported(hist) ==
    [getInitialState EXCEPT !.moodHistory = [i \in 1..Len(hist) |-> [date |-> i, mood |-> hist[i]]]]

Ctx0 == [data |-> getInitialState, storage |-> NoKey, saveTimeout |-> Undefined, timers |-> {},
         events |-> <<>>, saveCalls |-> 0]

RECURSIVE Lived(_, _, _, _, _)
Lived(s, day, lastDay, F, J) ==
    IF day > lastDay THEN s
    ELSE LET s1 == IF day \in F
                   THEN recordFeeling(s, "bom", [simpleClick |-> "true"], day * TicksPerDay, 0).s
                   ELSE s
             s2 == IF day \in J
                   THEN saveJournalEntry(s1, <<"o", "k", "!">>, Null, day * TicksPerDay).s
                   ELSE s1
         IN Lived(s2, day + 1, lastDay, F, J)

InitAnalytics ==
    /\ \/ /\ now = StartInstant
          /\ \E hist \in MoodHistories : data = Imported(hist)
          /\ storage = data
          /\ saveTimeout = Undefined
       \/ /\ now \in StartInstant..(StartInstant + MaxActiveDays * TicksPerDay - 1)
          /\ \E F \in SUBSET (StartDay..Today) :
             \E J \in {{}, {StartDay}, {Today}} :
                LET s == Lived(Ctx0, StartDay, Today, F, J)
                IN /\ data = s.data
                   /\ storage = (IF s.timers = {} THEN s.storage ELSE s.data)
                   /\ saveTimeout = s.saveTimeout
    /\ timers = {}
    /\ events = <<>>
    /\ saveCalls = 0
    /\ lastCall = [op |-> "load", ok |-> TRUE]
    /\ lastResult = [kind |-> "success", id |-> 0]
    /\ published = [b \in BADGES |-> 0]
    /\ budget = 0
    /\ BusInit
    /\ report = NoReport

\* A method of the Analytics Engine was called and returned r
Analyzed(r) ==
    /\ data # NoData
    /\ data' = r.doc
    /\ report' = r.report
    /\ lastCall' = [op |-> "analytics", method |-> r.report.method]
    /\ lastResult' = [kind |-> "success", id |-> 0]
    /\ events' = <<>>
    /\ saveCalls' = 0
    /\ UNCHANGED <<storage, saveTimeout, timers, now, published, budget>>
    /\ UNCHANGED busVars

AnalyzeMoodPatterns == Analyzed(analyzeMoodPatterns(data))

AnalyzeProductivity == Analyzed(analyzeProductivity(data))

AnalyzeEngagement == Analyzed(analyzeEngagement(data, now))

GenerateFullReport == Analyzed(generateFullReport(data, now))

ExportReportAsText == Analyzed(exportReportAsText(data, now))

NextAnalytics ==
    \/ AnalyzeMoodPatterns
    \/ AnalyzeProductivity
    \/ AnalyzeEngagement
    \/ GenerateFullReport
    \/ ExportReportAsText

SpecAnalytics == InitAnalytics /\ [][NextAnalytics]_vars

(***************************************************************************)
(* Goals only: goals are added, toggled and deleted, any goal the document *)
(* holds being the one toggled or deleted.                                 *)
(***************************************************************************)
GoalIdsHeld == IF data = NoData THEN {} ELSE {data.goals[i].id : i \in 1..Len(data.goals)}

InitGoals == InitWith(MaxGoalSteps)

NextGoals ==
    \/ AddGoal(<<"W", "a", "l", "k">>)
    \/ \E goalId \in GoalIdsHeld : ToggleGoal(goalId)
    \/ \E goalId \in GoalIdsHeld : DeleteGoal(goalId)

SpecGoals == InitGoals /\ [][NextGoals]_vars

(***************************************************************************)
(* Challenges only: any challenge of the catalog, or one that is not in    *)
(* it, is completed while the clock runs.                                  *)
(***************************************************************************)
CatalogIds == {CHALLENGES[i].id : i \in 1..Len(CHALLENGES)}

InitChallenges == InitWith(MaxChallengeSteps)

NextChallenges ==
    \/ \E challengeId \in CatalogIds \cup {"challenge_x"} : CompleteChallenge(challengeId)
    \/ Tick

SpecChallenges == InitChallenges /\ [][NextChallenges]_vars

(***************************************************************************)
(* The journal of a new user: the document that was loaded has no journal  *)
(* entry, no feeling and no badge (StorageManager.importData installs the  *)
(* text of any file); entries are saved, edited and deleted and feelings   *)
(* are recorded while the clock runs.                                      *)
(***************************************************************************)
NewUserDocument ==
    [getInitialState EXCEPT !.journalEntries = <<>>, !.feelings = <<>>, !.moodHistory = <<>>,
                            !.userProfile.badges = <<>>]

EntryIdsHeld ==
    IF data = NoData THEN {} ELSE {data.journalEntries[i].id : i \in 1..Len(data.journalEntries)}

InitJournal ==
    /\ data = NewUserDocument
    /\ storage = data
    /\ saveTimeout = Undefined
    /\ timers = {}
    /\ now = StartInstant
    /\ events = << [name |-> "state:loaded", arg |-> NoPayload, seen |-> data] >>
    /\ saveCalls = 0
    /\ lastCall = [op |-> "load", ok |-> TRUE]
    /\ lastResult = [kind |-> "success", id |-> 0]
    /\ published = [b \in BADGES |-> 0]
    /\ budget = MaxJournalSteps
    /\ BusInit
    /\ report = NoReport

NextJournal ==
    \/ \E content \in ContentInputs, entryId \in EntryIdsHeld \cup {Null, 99} :
            SaveJournalEntry(content, entryId)
    \/ \E entryId \in EntryIdsHeld : DeleteJournalEntry(entryId)
    \/ \E details \in DetailInputs : RecordFeeling("bom", details, 0)
    \/ Tick

SpecJournal == InitJournal /\ [][NextJournal]_vars

(***************************************************************************)
(* Appointments only: appointments are scheduled on a free slot, on a slot *)
(* that is not available, at a time without a slot, without a time and in *)
(* the past, and any appointment held is cancelled, while the clock runs.  *)
(***************************************************************************)
SlotApptInputs ==
    ApptInputs \cup { [date |-> <<33>>, time |-> <<10>>], [date |-> <<33>>, time |-> <<12>>] }

ApptIdsHeld ==
    IF data = NoData THEN {} ELSE {data.appointments[i].id : i \in 1..Len(data.appointments)}

InitAppointments == InitWith(MaxApptSteps)

NextAppointments ==
    \/ \E appt \in SlotApptInputs : ScheduleAppointment(appt)
    \/ \E appointmentId \in ApptIdsHeld \cup {99} : CancelAppointment(appointmentId)
    \/ Tick

SpecAppointments == InitAppointments /\ [][NextAppointments]_vars

(***************************************************************************)
(* The Analytics Engine after a month of use: from the first day on a      *)
(* feeling was recorded every day but the days in skipped, always at the   *)
(* same reading of the day's clock, and the save timer has fired.          *)
(***************************************************************************)
RECURSIVE LivedMonth(_, _, _, _, _)
LivedMonth(s, day, instant, skipped, reading) ==
    IF day * TicksPerDay + reading > instant \/ s.data = NoData THEN s
    ELSE LivedMonth(IF day \in skipped THEN s
                    ELSE recordFeeling(s, "bom", [simpleClick |-> "true"],
                                       day * TicksPerDay + reading, 0).s,
                    day + 1, instant, skipped, reading)

InitEngagement ==
    /\ now \in ((StartDay + MaxLivedDays - 3) * TicksPerDay)..((StartDay + MaxLivedDays) * TicksPerDay - 1)
    /\ \E skipped \in SUBSET {StartDay, StartDay + 1, Today} :
       \E reading \in 0..(TicksPerDay - 1) :
          LET s == LivedMonth(Ctx0, StartDay, now, skipped, reading)
          IN /\ data = s.data
             /\ storage = s.data
             /\ saveTimeout = s.saveTimeout
    /\ timers = {}
    /\ events = <<>>
    /\ saveCalls = 0
    /\ lastCall = [op |-> "load", ok |-> TRUE]
    /\ lastResult = [kind |-> "success", id |-> 0]
    /\ published = [b \in BADGES |-> 0]
    /\ budget = 0
    /\ BusInit
    /\ report = NoReport

SpecEngagement == InitEngagement /\ [][NextAnalytics]_vars

(***************************************************************************)
(* Properties.                                                             *)
(***************************************************************************)
\* This step is a call of the Store operation op
Called(op) == now' = now /\ budget' = budget - 1 /\ lastCall'.op = op

MutationOps ==
    {"addXp", "recordFeeling", "addGoal", "toggleGoal", "deleteGoal", "saveJournalEntry",
     "deleteJournalEntry", "completeChallenge", "scheduleAppointment", "cancelAppointment",
     "changeSchedulingDate"}

ReplacingOps == {"login", "load", "reset"}

Profile == data.userProfile

LevelUps(evs) == Cardinality({i \in 1..Len(evs) : evs[i].name = "user:levelup"})

\* C1: after every Store mutation operation on a document that started as a
\* clone of INITIAL_STATE, userProfile.xp < xpForNextLevel(userProfile.level).
C1_XpBelowNextLevel ==
    (data # NoData /\ lastCall.op \in MutationOps /\ lastResult.kind # "throw")
        => Profile.xp < xpForNextLevel(Profile.level)

\* The reference computation of C2: subtract xpForNextLevel while it fits
RECURSIVE RefLevel(_, _)
RefLevel(level, xp) ==
    IF xp >= xpForNextLevel(level)
    THEN RefLevel(level + 1, xp - xpForNextLevel(level))
    ELSE <<level, xp>>

\* C2: for every level >= 1, every xp0 with 0 <= xp0 < xpForNextLevel(level)
\* and every amount > 0, addXp(amount) leaves the (level, xp) pair of the
\* reference computation, also when the grant crosses several levels.
C2_AddXpMatchesReference ==
    [][ ( /\ Called("addXp")
          /\ data # NoData
          /\ lastCall'.amount > 0
          /\ Profile.xp >= 0
          /\ Profile.xp < xpForNextLevel(Profile.level) )
        => <<data'.userProfile.level, data'.userProfile.xp>>
              = RefLevel(Profile.level, Profile.xp + lastCall'.amount) ]_vars

\* One grant has crossed at least two levels
C2_Witness ==
    /\ lastCall.op = "addXp"
    /\ LevelUps(events) >= 2
    /\ <<Profile.level, Profile.xp>> = <<5, 84>>

\* The claim of C3 as it stands: awardBadge(id) called twice, with any other
\* operations in between, publishes badge:awarded on the first call only and
\* userProfile.badges never holds a duplicate.
C3_PublishedOnFirstCallOnly ==
    /\ data # NoData => NoDuplicates(Profile.badges)
    /\ \A b \in BADGES : published[b] <= 1

\* C3 (amended): userProfile.badges never holds a duplicate; awardBadge(id)
\* for an id not held appends it once and publishes badge:awarded once (for a
\* catalog id); awardBadge(id) for an id already held changes nothing and
\* publishes nothing; and a badge held stays held under every operation other
\* than login, load and reset, which replace the document.
C3_BadgeIdempotence ==
    /\ [](data # NoData => NoDuplicates(Profile.badges))
    /\ [][ /\ (Called("awardBadge") /\ data # NoData) =>
                IF lastCall'.badgeId \in Range(Profile.badges)
                THEN data' = data /\ events' = <<>>
                ELSE /\ data'.userProfile.badges = Append(Profile.badges, lastCall'.badgeId)
                     /\ BadgeEvents(events', lastCall'.badgeId)
                            = (IF lastCall'.badgeId \in BADGES THEN 1 ELSE 0)
           /\ (data # NoData /\ lastCall'.op \notin ReplacingOps) =>
                /\ data' # NoData
                /\ Range(Profile.badges) \subseteq Range(data'.userProfile.badges) ]_vars

\* A badge was awarded and published, and a second awardBadge call for it has
\* left one occurrence and published nothing
C3_Witness ==
    /\ data # NoData
    /\ lastCall.op = "awardBadge"
    /\ lastCall.badgeId = "STREAK_7"
    /\ published["STREAK_7"] = 1
    /\ events = <<>>
    /\ Count(Profile.badges, "STREAK_7") = 1

\* C4: completeChallenge(id) for an id already in completedChallenges returns
\* a failure, grants no XP, publishes no event and leaves the document
\* unchanged; completedChallenges never holds a duplicate.
C4_ChallengeExactlyOnce ==
    /\ [](data # NoData => NoDuplicates(Profile.completedChallenges))
    /\ [][ ( /\ Called("completeChallenge")
             /\ data # NoData
             /\ lastCall'.challengeId \in Range(Profile.completedChallenges) )
           => /\ lastResult'.kind = "failure"
              /\ data' = data
              /\ events' = <<>>
              /\ saveCalls' = 0 ]_vars

\* A challenge completed in this session was completed again, and refused
C4_Witness ==
    /\ data # NoData
    /\ lastCall.op = "completeChallenge"
    /\ lastCall.challengeId = "challenge_3"
    /\ lastResult.kind = "failure"
    /\ Count(Profile.completedChallenges, "challenge_3") = 1

\* C5: a recordFeeling call on system day T leaves checkInStreak unchanged
\* when lastCheckInDate = T, adds exactly 1 to it when lastCheckInDate = T-1
\* and sets it to 1 for any other lastCheckInDate; lastCheckInDate = T after.
C5_StreakStep ==
    [][ (Called("recordFeeling") /\ data # NoData) =>
          /\ data'.userProfile.lastCheckInDate = Today
          /\ data'.userProfile.checkInStreak =
                (CASE Profile.lastCheckInDate = Today -> Profile.checkInStreak
                   [] Profile.lastCheckInDate = Today - 1 -> Profile.checkInStreak + 1
                   [] OTHER -> 1) ]_vars

\* The document is a clone of INITIAL_STATE, with or without a user name
Fresh(d) == d # NoData /\ [d EXCEPT !.userName = <<>>] = getInitialState

\* C6: on a fresh document the first recordFeeling("bom") makes xp the
\* baseline plus 10, appends one moodHistory entry of mood "bom", makes the
\* streak 1 and awards no badge; a recordFeeling on the next day makes the
\* streak 2; one on the third consecutive day makes it 3 and publishes
\* badge:awarded for STREAK_3 exactly once.
C6_CheckInScenario ==
    [][ (Called("recordFeeling") /\ data # NoData /\ lastCall'.emotion = "bom") =>
          /\ Fresh(data) =>
                /\ data'.userProfile.xp = Profile.xp + 10
                /\ Len(data'.moodHistory) = Len(data.moodHistory) + 1
                /\ data'.moodHistory[Len(data'.moodHistory)].mood = "bom"
                /\ data'.userProfile.checkInStreak = 1
                /\ \A b \in BADGES : BadgeEvents(events', b) = 0
          /\ (Profile.lastCheckInDate = Today - 1 /\ Profile.checkInStreak = 1) =>
                data'.userProfile.checkInStreak = 2
          /\ (Profile.lastCheckInDate = Today - 1 /\ Profile.checkInStreak = 2) =>
                /\ data'.userProfile.checkInStreak = 3
                /\ BadgeEvents(events', "STREAK_3") = 1
                /\ published'["STREAK_3"] = 1 ]_vars

\* C7: one recordFeeling call appends exactly one entry to feelings and one
\* to moodHistory, with the same emotion and the same date, whatever the
\* emotion and the details; no other mutation operation changes either
\* sequence.
C7_FeelingMoodLockstep ==
    [][ /\ (Called("recordFeeling") /\ data # NoData) =>
            /\ Len(data'.feelings) = Len(data.feelings) + 1
            /\ Len(data'.moodHistory) = Len(data.moodHistory) + 1
            /\ SubSeq(data'.feelings, 1, Len(data.feelings)) = data.feelings
            /\ SubSeq(data'.moodHistory, 1, Len(data.moodHistory)) = data.moodHistory
            /\ data'.feelings[Len(data'.feelings)].emotion
                  = data'.moodHistory[Len(data'.moodHistory)].mood
            /\ data'.feelings[Len(data'.feelings)].date
                  = data'.moodHistory[Len(data'.moodHistory)].date
        /\ ( /\ data # NoData
             /\ now' = now
             /\ budget' = budget - 1
             /\ lastCall'.op \in MutationOps \ {"recordFeeling"} ) =>
            /\ data'.feelings = data.feelings
            /\ data'.moodHistory = data.moodHistory ]_vars

\* The goals of d other than the one at index i
OtherGoals(d, i) == RemoveAt(d.goals, i)

\* C8: right after addGoal(title) has returned goal g, toggleGoal(g.id) makes
\* that goal completed with a non-null completedAt, and a second
\* toggleGoal(g.id) makes it not completed with completedAt = null; title, id
\* and createdAt of the goal and all other goals are unchanged by both.
C8_GoalRoundTrip ==
    [][ (Called("toggleGoal") /\ data # NoData) =>
          /\ ( /\ lastCall.op = "addGoal"
               /\ lastResult.kind = "success"
               /\ lastCall'.goalId = lastResult.id ) =>
                /\ lastResult'.kind = "success"
                /\ Len(data'.goals) = Len(data.goals)
                /\ data.goals[1].id = lastResult.id
                /\ data'.goals[1].completed = TRUE
                /\ data'.goals[1].completedAt \notin {Null, Undefined}
                /\ data'.goals[1].id = data.goals[1].id
                /\ data'.goals[1].title = data.goals[1].title
                /\ data'.goals[1].createdAt = data.goals[1].createdAt
                /\ OtherGoals(data', 1) = OtherGoals(data, 1)
          /\ ( /\ lastCall.op = "toggleGoal"
               /\ lastResult.kind = "success"
               /\ lastCall'.goalId = lastCall.goalId
               /\ data.goals[FindIndexById(data.goals, lastCall.goalId)].completed ) =>
                LET i == FindIndexById(data.goals, lastCall.goalId)
                IN /\ lastResult'.kind = "success"
                   /\ Len(data'.goals) = Len(data.goals)
                   /\ data'.goals[i].completed = FALSE
                   /\ data'.goals[i].completedAt = Null
                   /\ data'.goals[i].id = data.goals[i].id
                   /\ data'.goals[i].title = data.goals[i].title
                   /\ data'.goals[i].createdAt = data.goals[i].createdAt
                   /\ OtherGoals(data', i) = OtherGoals(data, i) ]_vars

\* A goal added in this session was toggled twice and is back to not completed
C8_Witness ==
    /\ data # NoData
    /\ lastCall.op = "toggleGoal"
    /\ lastResult.kind = "success"
    /\ Len(data.goals) = 6
    /\ data.goals[1].id = lastCall.goalId
    /\ data.goals[1].createdAt # Undefined
    /\ data.goals[1].completed = FALSE
    /\ data.goals[1].completedAt = Null

\* C9: an operation that returns a failure result leaves the whole document
\* unchanged, grants no XP, awards no badge, publishes no observer event and
\* schedules no save.
C9_FailureLeavesNoTrace ==
    [][ (now' = now /\ budget' = budget - 1 /\ lastResult'.kind = "failure") =>
          /\ data' = data
          /\ events' = <<>>
          /\ saveCalls' = 0
          /\ saveTimeout' = saveTimeout
          /\ timers' = timers
          /\ storage' = storage
          /\ published' = published ]_vars

\* An edit of a journal entry that does not exist has failed while the save
\* timer of an earlier mutation was pending
C9_Witness ==
    /\ data # NoData
    /\ lastCall.op = "saveJournalEntry"
    /\ lastCall.content = <<"o", "k", "!">>
    /\ lastCall.entryId = 99
    /\ lastResult.kind = "failure"
    /\ timers # {}
    /\ storage = NoKey

\* C10: in every state reachable through Store operations, also after a
\* successful reset() and before load() or login(), no mutation operation
\* throws past the Store boundary.
C10_NeverThrows == lastResult.kind # "throw"

\* C11: at most one save timer is pending at any time; a mutation that calls
\* save() leaves exactly the timer it set pending and writes nothing, and a
\* mutation that changes the document leaves a timer pending; the timer, when
\* it fires, leaves none pending and writes the document as it is then; a
\* successful login (save(true)) writes at once and leaves no timer pending.
C11_DebouncedSave ==
    /\ [](Cardinality(timers) <= 1)
    /\ [][ (now' = now /\ budget' = budget - 1) =>
            /\ (lastCall'.op \in MutationOps /\ saveCalls' > 0) =>
                    /\ timers' = {saveTimeout'}
                    /\ storage' = storage
            /\ (lastCall'.op \in MutationOps /\ data' # data) => timers' # {}
            /\ lastCall'.op = "saveTimer" =>
                    /\ timers' = {}
                    /\ data' = data
                    /\ storage' = (IF lastCall'.ok THEN data ELSE storage)
            /\ (lastCall'.op = "login" /\ lastResult'.kind = "success") =>
                    /\ timers' = {}
                    /\ storage' = (IF lastCall'.ok THEN data' ELSE storage) ]_vars

\* Two goals were added in a burst and the one timer left has then written
\* the document that holds both
C11_Witness ==
    /\ lastCall.op = "saveTimer"
    /\ lastCall.ok
    /\ data # NoData
    /\ Len(data.goals) = Len(INITIAL_STATE.goals) + 2
    /\ storage = data
    /\ timers = {}
    /\ saveTimeout # Undefined

\* C12: a storage write that fails leaves the in-memory document as the
\* mutation produced it and the persisted document as it was; a login whose
\* immediate write fails still installs the new document and returns its
\* success result; and the next operation starts from the in-memory document
\* (an addGoal after a failed write puts the new goal in front of its goals).
C12_WriteFailureKeepsDocument ==
    [][ (now' = now /\ budget' = budget - 1) =>
          /\ (lastCall'.op = "saveTimer" /\ ~lastCall'.ok) =>
                /\ data' = data
                /\ storage' = storage
          /\ ( /\ lastCall'.op = "login"
               /\ ~lastCall'.ok
               /\ validateLoginName(lastCall'.userName) = <<>> ) =>
                /\ lastResult'.kind = "success"
                /\ data' = [getInitialState EXCEPT !.userName = SanitizeHtml(lastCall'.userName)]
                /\ storage' = storage
          /\ ( /\ lastCall.op = "saveTimer"
               /\ ~lastCall.ok
               /\ data # NoData
               /\ lastCall'.op = "addGoal"
               /\ lastResult'.kind = "success" ) =>
                /\ Tail(data'.goals) = data.goals
                /\ [data' EXCEPT !.goals = data.goals] = data ]_vars

\* The write of a document with a goal added in this session has failed: the
\* goal is in memory and nothing is persisted
C12_Witness ==
    /\ lastCall.op = "saveTimer"
    /\ ~lastCall.ok
    /\ data # NoData
    /\ Len(data.goals) = Len(INITIAL_STATE.goals) + 1
    /\ storage = NoKey
    /\ timers = {}

\* C13: a publish of event e invokes the callbacks subscribed to e when it
\* starts, in subscription order and once per subscription, also when one of
\* them throws, and no exception reaches the publisher.
C13_ObserverBus ==
    [][ \A e \in BusEvents :
          (lastCall'.op = "notify" /\ lastCall'.event = e) =>
              /\ invoked' = observers[e]
              /\ escaped' = FALSE ]_vars

\* A callback that throws was invoked first and the one subscribed after it
\* was invoked as well
C13_Witness ==
    /\ lastCall.op = "notify"
    /\ lastCall.event = "xp:added"
    /\ invoked = <<"throws", "returns">>
    /\ observers["user:levelup"] # <<>>
    /\ escaped = FALSE

\* C14: every callback invoked for an event of a mutation operation reads the
\* document as the operation leaves it (all of its effects applied), and
\* never one whose xp has reached xpForNextLevel(level).
C14_SettledReads ==
    (lastCall.op \in MutationOps /\ data # NoData) =>
        \A i \in 1..Len(events) :
            /\ events[i].seen = data
            /\ events[i].seen.userProfile.xp < xpForNextLevel(events[i].seen.userProfile.level)

\* C15: a call of analyzeMoodPatterns, analyzeProductivity, analyzeEngagement,
\* generateFullReport or exportReportAsText leaves every field of the
\* document unchanged, the order of its sequences included, publishes no
\* event and schedules no save.
C15_AnalyticsIsPure ==
    [][ lastCall'.op = "analytics" =>
          /\ data' = data
          /\ events' = <<>>
          /\ saveCalls' = 0
          /\ timers' = timers
          /\ saveTimeout' = saveTimeout
          /\ storage' = storage ]_vars

\* The full report was made of a document with a mood history, a journal
\* entry of this session and active days, and the document is still the one
\* that was persisted
C15_Witness ==
    /\ lastCall.op = "analytics"
    /\ report.method = "generateFullReport"
    /\ report.mood.hasData
    /\ report.engagement.activeDays >= 2
    /\ Len(data.journalEntries) = Len(INITIAL_STATE.journalEntries) + 1
    /\ storage = data

\* The trend of C16 for a sequence of mood values: the two means are compared
\* as the fractions S1/n1 and S2/n2
RefTrend(values) ==
    LET n1 == Len(values) \div 2
        n2 == Len(values) - n1
        S1 == SumSeq(SubSeq(values, 1, n1))
        S2 == SumSeq(SubSeq(values, n1 + 1, Len(values)))
    IN IF 10 * Abs(S2 * n1 - S1 * n2) < 3 * n1 * n2 THEN "stable"
       ELSE IF S2 * n1 > S1 * n2 THEN "improving"
       ELSE "declining"

\* C16: for a moodHistory of n >= 3 entries with MoodLabel moods,
\* analyzeMoodPatterns().trend is the trend of the last min(7, n) entries
\* mapped to 1..5, split into the first floor(m/2) values and the rest; seven
\* pessimo give stable, [1,1,1,5,5,5,5] improving, [5,5,5,1,1,1,1] declining.
C16_TrendDetection ==
    ( /\ lastCall.op = "analytics"
      /\ report.method = "analyzeMoodPatterns"
      /\ Len(data.moodHistory) >= 3
      /\ \A i \in 1..Len(data.moodHistory) : moodMap(data.moodHistory[i].mood) \in 1..5 ) =>
        LET n == Len(data.moodHistory)
            m == IF n < 7 THEN n ELSE 7
            values == [i \in 1..m |-> moodMap(data.moodHistory[n - m + i].mood)]
        IN /\ report.hasData
           /\ report.trend = RefTrend(values)
           /\ values = <<1, 1, 1, 1, 1, 1, 1>> => report.trend = "stable"
           /\ values = <<1, 1, 1, 5, 5, 5, 5>> => report.trend = "improving"
           /\ values = <<5, 5, 5, 1, 1, 1, 1>> => report.trend = "declining"

\* The history has eight entries, the last seven are [5,5,5,1,1,1,1] and the
\* trend reported is declining
C16_Witness ==
    /\ lastCall.op = "analytics"
    /\ report.method = "analyzeMoodPatterns"
    /\ Len(data.moodHistory) = 8
    /\ MapMoods(data.moodHistory) = <<1, 5, 5, 5, 1, 1, 1, 1>>
    /\ report.trend = "declining"

\* The instant at which a journal entry was recorded: a seeded entry, which
\* has no createdAt, on the day its date names
RecordedAt(e) == IF e.createdAt # Undefined THEN e.createdAt ELSE e.date * TicksPerDay

\* The calendar days of the trailing 30 days with a journal entry or a feeling
RefActiveDays(d, instant) ==
    {DayOf(RecordedAt(d.journalEntries[i])) :
        i \in {j \in 1..Len(d.journalEntries) :
                 RecordedAt(d.journalEntries[j]) >= instant - 30 * TicksPerDay}}
    \cup
    {DayOf(d.feelings[i].timestamp) :
        i \in {j \in 1..Len(d.feelings) : d.feelings[j].timestamp >= instant - 30 * TicksPerDay}}

\* The number a string of digits with one point reads, in tenths
RECURSIVE ParseTenths(_)
ParseTenths(str) ==
    IF str = <<>> THEN 0
    ELSE LET c == str[Len(str)]
             rest == ParseTenths(SubSeq(str, 1, Len(str) - 1))
         IN IF c = "." THEN rest
            ELSE 10 * rest + (CHOOSE v \in 0..9 : Digits(v) = <<c>>)

\* C17: analyzeEngagement().activeDays is the number of distinct calendar
\* days of the trailing 30 days with a journal entry or a feeling (a day with
\* both counts once), engagementRate is activeDays / 30 * 100 to one decimal,
\* and 9 such days give "30.0".
C17_EngagementRate ==
    (lastCall.op = "analytics" /\ report.method = "analyzeEngagement") =>
        LET rate == report.engagementRate
        IN /\ report.activeDays = Cardinality(RefActiveDays(data, now))
           /\ Len(rate) >= 3
           /\ rate[Len(rate) - 1] = "."
           /\ Abs(30 * ParseTenths(rate) - 1000 * report.activeDays) <= 15
           /\ report.activeDays = 9 => rate = <<"3", "0", ".", "0">>

\* Nine days are active, one of them with a feeling and a journal entry, and
\* the rate reported is "30.0"
C17_Witness ==
    /\ lastCall.op = "analytics"
    /\ report.method = "analyzeEngagement"
    /\ report.activeDays = 9
    /\ report.engagementRate = <<"3", "0", ".", "0">>
    /\ Len(data.journalEntries) = Len(INITIAL_STATE.journalEntries) + 1
    /\ DayOf(data.journalEntries[1].createdAt) = DayOf(data.feelings[Len(data.feelings)].timestamp)

\* The six mood labels
MoodLabel == {"pessimo", "ruim", "neutro", "bom", "otimo", "feliz"}

\* C18: in every reachable state every emotion stored in feelings and every
\* mood stored in moodHistory is one of the six MoodLabel values, whatever
\* emotion recordFeeling is called with.
C18_StoredMoodsAreLabels ==
    data # NoData =>
        /\ \A i \in 1..Len(data.feelings) : data.feelings[i].emotion \in MoodLabel
        /\ \A i \in 1..Len(data.moodHistory) : data.moodHistory[i].mood \in MoodLabel

\* No two elements of seq have the same id
UniqueIds(seq) == \A i, j \in 1..Len(seq) : seq[i].id = seq[j].id => i = j

\* C19: in every reachable state no two goals share an id, no two journal
\* entries share an id and no two appointments share an id, calls made at
\* the same clock reading included.
C19_EntityIdsUnique ==
    data # NoData =>
        /\ UniqueIds(data.goals)
        /\ UniqueIds(data.journalEntries)
        /\ UniqueIds(data.appointments)

\* C20: login(name) fails with no mutation when name has fewer than 2
\* characters after trimming, addGoal(title) fails with no mutation when
\* title has fewer than 3 or more than 200 characters after trimming; every
\* stored goal title has 3 to 200 characters and a logged-in userName has at
\* least 2 characters after trimming.
C20_TrimmedLengthValidation ==
    /\ [](data # NoData =>
            /\ \A i \in 1..Len(data.goals) : Len(data.goals[i].title) \in 3..200
            /\ data.userName # <<>> => Len(Trim(data.userName)) >= 2)
    /\ [][ /\ (Called("login") /\ Len(Trim(lastCall'.userName)) < 2) =>
                (lastResult'.kind = "failure" /\ data' = data /\ storage' = storage)
           /\ (Called("addGoal") /\ Len(Trim(lastCall'.title)) \notin 3..200) =>
                (lastResult'.kind = "failure" /\ data' = data /\ storage' = storage) ]_vars

\* All the XP a profile has been granted: the XP spent on the levels passed
\* and the XP held
RECURSIVE SpentXp(_)
SpentXp(level) == IF level <= 1 THEN 0 ELSE xpForNextLevel(level - 1) + SpentXp(level - 1)

TotalXp(profile) == SpentXp(profile.level) + profile.xp

\* (level, xp) of q is not below that of p in lexicographic order
LexLeq(p, q) == q.level > p.level \/ (q.level = p.level /\ q.xp >= p.xp)

\* This step is a toggleGoal call that found its goal, completed before or not
Toggled(wasCompleted) ==
    /\ Called("toggleGoal")
    /\ data # NoData
    /\ lastResult'.kind = "success"
    /\ data.goals[FindIndexById(data.goals, lastCall'.goalId)].completed = wasCompleted

\* A step of an operation outside exempt never lowers (level, xp); un-completing
\* a goal leaves level and xp alone and completing one grants exactly 50 XP
XpMonotonicExcept(exempt) ==
    /\ (data # NoData /\ data' # NoData /\ lastCall'.op \notin exempt) =>
            LexLeq(data.userProfile, data'.userProfile)
    /\ Toggled(TRUE) =>
            /\ data'.userProfile.level = data.userProfile.level
            /\ data'.userProfile.xp = data.userProfile.xp
    /\ Toggled(FALSE) =>
            TotalXp(data'.userProfile) = TotalXp(data.userProfile) + 50

\* C21 as stated: under every Store operation other than login and reset the
\* pair (level, xp) never decreases in lexicographic order; un-completing a
\* goal leaves level and xp unchanged and completing one grants exactly 50 XP.
C21_XpMonotonic == [][XpMonotonicExcept({"login", "reset"})]_vars

\* C21 amended: the same under every Store operation other than login, reset
\* and load, which replace the document.
C21_XpMonotonicExceptReload == [][XpMonotonicExcept({"login", "reset", "load"})]_vars

\* Goal 2 was completed, un-completed and completed again: 100 XP in total
C21_Witness ==
    /\ data # NoData
    /\ budget = MaxSteps - 3
    /\ lastCall = [op |-> "toggleGoal", goalId |-> 2]
    /\ {i \in 1..Len(data.goals) : data.goals[i].completed} = {1, 2, 4}
    /\ data.goals[1].completedAt = Undefined
    /\ TotalXp(data.userProfile) = TotalXp(INITIAL_STATE.userProfile) + 100

\* The events of that name among evs, in the order they were published
EventsNamed(evs, name) == SelectSeq(evs, LAMBDA e : e.name = name)

\* C22: an addXp(amount) call with amount > 0 that raises the level from L to
\* L+k publishes exactly k user:levelup events, for the levels L+1, ..., L+k
\* in this order, and after them its one xp:added event; a call with
\* amount <= 0 changes nothing and publishes neither event.
C22_LevelUpEvents ==
    [][ (Called("addXp") /\ data # NoData) =>
          LET L == data.userProfile.level
              k == data'.userProfile.level - L
              ups == EventsNamed(events', "user:levelup")
          IN IF lastCall'.amount > 0
             THEN /\ k >= 0
                  /\ Len(ups) = k
                  /\ \A i \in 1..k : ups[i].arg = [level |-> L + i]
                  /\ Len(EventsNamed(events', "xp:added")) = 1
                  /\ events'[Len(events')].name = "xp:added"
             ELSE /\ data' = data
                  /\ storage' = storage
                  /\ timers' = timers
                  /\ events' = <<>> ]_vars

\* One grant of 400 XP took the fresh document from level 2 to level 5 and
\* published user:levelup for 3, 4 and 5 and then xp:added
C22_Witness ==
    /\ lastCall = [op |-> "addXp", amount |-> 400]
    /\ data # NoData
    /\ data.userProfile.level = 5
    /\ budget = MaxSteps - 1
    /\ Len(EventsNamed(events, "user:levelup")) = 3
    /\ events[Len(events)].name = "xp:added"

\* The document holds LEVEL_5 exactly when its level is 5 or more
Level5BadgeHeld ==
    data # NoData => (data.userProfile.level >= 5 <=> "LEVEL_5" \in Range(data.userProfile.badges))

CompletedGoals(d) == Cardinality({i \in 1..Len(d.goals) : d.goals[i].completed})

\* C24: a toggleGoal call that completes a goal awards GOAL_MASTER iff at
\* least 5 goals are completed after the toggle; so at least 5 completed
\* goals imply GOAL_MASTER in badges, and GOAL_MASTER stays in badges when
\* goals are un-completed or deleted.
C24_GoalMaster ==
    /\ [](data # NoData =>
            (CompletedGoals(data) >= 5 => "GOAL_MASTER" \in Range(data.userProfile.badges)))
    /\ [][ /\ Toggled(FALSE) =>
                /\ "GOAL_MASTER" \in Range(data'.userProfile.badges) <=>
                        \/ CompletedGoals(data') >= 5
                        \/ "GOAL_MASTER" \in Range(data.userProfile.badges)
                /\ BadgeEvents(events', "GOAL_MASTER") =
                        (IF /\ CompletedGoals(data') >= 5
                            /\ "GOAL_MASTER" \notin Range(data.userProfile.badges)
                         THEN 1 ELSE 0)
           /\ (Toggled(TRUE) \/ (Called("deleteGoal") /\ data # NoData)) =>
                /\ data'.userProfile.badges = data.userProfile.badges
                /\ BadgeEvents(events', "GOAL_MASTER") = 0 ]_vars

\* GOAL_MASTER was awarded with five goals completed, and it is still held
\* after one of them was un-completed and another deleted
C24_Witness ==
    /\ data # NoData
    /\ lastCall.op = "deleteGoal"
    /\ lastResult.kind = "success"
    /\ budget = MaxGoalSteps - 5
    /\ CompletedGoals(data) = 3
    /\ Len(data.goals) = 4
    /\ Count(data.userProfile.badges, "GOAL_MASTER") = 1
    /\ published["GOAL_MASTER"] = 1

\* The XP the catalog gives for challenge id
CatalogXp(id) == CHALLENGES[CHOOSE i \in 1..Len(CHALLENGES) : CHALLENGES[i].id = id].xp

SavedEntry ==
    /\ Called("saveJournalEntry")
    /\ data # NoData
    /\ Len(Trim(lastCall'.content)) \in 3..10000

\* C26: a valid saveJournalEntry(content) without entryId adds exactly one
\* entry whose mood is the emotion of the feeling recorded last (neutro when
\* there is none), grants exactly 25 XP and awards JOURNAL_START iff no
\* entry was created before (the badge is awarded at the first entry and at
\* no later one); with the id of an existing entry it changes only that
\* entry's content and updatedAt and grants no XP and no badge.
C26_JournalEntry ==
    /\ [](published["JOURNAL_START"] <= 1)
    /\ [][ /\ (SavedEntry /\ lastCall'.entryId = Null) =>
                /\ lastResult'.kind = "success"
                /\ Len(data'.journalEntries) = Len(data.journalEntries) + 1
                /\ Tail(data'.journalEntries) = data.journalEntries
                /\ Head(data'.journalEntries).content = Trim(lastCall'.content)
                /\ Head(data'.journalEntries).mood =
                        (IF data.feelings = <<>> THEN "neutro"
                         ELSE data.feelings[Len(data.feelings)].emotion)
                /\ TotalXp(data'.userProfile) = TotalXp(data.userProfile) + 25
                /\ "JOURNAL_START" \in Range(data'.userProfile.badges)
                /\ BadgeEvents(events', "JOURNAL_START") =
                        (IF "JOURNAL_START" \in Range(data.userProfile.badges) THEN 0 ELSE 1)
                /\ Range(data'.userProfile.badges) \ {"JOURNAL_START", "LEVEL_5"} =
                        Range(data.userProfile.badges) \ {"JOURNAL_START", "LEVEL_5"}
           /\ (SavedEntry /\ lastCall'.entryId \in EntryIdsHeld) =>
                LET i == FindIndexById(data.journalEntries, lastCall'.entryId)
                IN /\ lastResult'.kind = "success"
                   /\ data' = [data EXCEPT !.journalEntries[i].content = Trim(lastCall'.content),
                                            !.journalEntries[i].updatedAt = now]
                   /\ BadgeEvents(events', "JOURNAL_START") = 0 ]_vars

\* The journal was emptied and an entry was created again: JOURNAL_START is
\* held once and was published once, at the first entry, and the new entry
\* has the emotion of the feeling recorded last
C26_Witness ==
    /\ data # NoData
    /\ lastCall = [op |-> "saveJournalEntry", content |-> <<"o", "k", "!">>, entryId |-> Null]
    /\ lastResult.kind = "success"
    /\ budget = MaxJournalSteps - 4
    /\ Len(data.journalEntries) = 1
    /\ Len(data.feelings) = 1
    /\ data.journalEntries[1].mood = "ruim"
    /\ Count(data.userProfile.badges, "JOURNAL_START") = 1
    /\ published["JOURNAL_START"] = 1
    /\ BadgeEvents(events, "JOURNAL_START") = 0

\* The slots with the slot at index i, if there is one, marked as given
SlotsMarked(slots, i, free) ==
    [j \in 1..Len(slots) |-> IF j = i THEN [slots[j] EXCEPT !.available = free] ELSE slots[j]]

\* This step is a scheduleAppointment call with a date, a time and an instant
\* that is not in the past, on a loaded document
ScheduledValid ==
    /\ Called("scheduleAppointment")
    /\ data # NoData
    /\ lastCall'.appointmentData.date # <<>>
    /\ lastCall'.appointmentData.time # <<>>
    /\ ApptInstant(lastCall'.appointmentData.date, lastCall'.appointmentData.time) # Null
    /\ ApptInstant(lastCall'.appointmentData.date, lastCall'.appointmentData.time) >= now

\* This step is a cancelAppointment call for an appointment that exists
CancelledExisting ==
    /\ Called("cancelAppointment")
    /\ data # NoData
    /\ lastCall'.appointmentId \in ApptIdsHeld

\* C27: a valid scheduleAppointment adds exactly one appointment with status
\* pending and date "date time" and marks the slot of that date and time, if
\* there is one, unavailable, changing no other slot; cancelAppointment of an
\* existing appointment removes exactly that appointment and marks the slot
\* of the date and time its date splits into, if there is one, available,
\* changing no other slot.
C27_AppointmentSlots ==
    [][ /\ ScheduledValid =>
            LET appt == lastCall'.appointmentData
            IN /\ lastResult'.kind = "success"
               /\ Tail(data'.appointments) = data.appointments
               /\ Head(data'.appointments).status = "pending"
               /\ Head(data'.appointments).date = appt.date \o <<Space>> \o appt.time
               /\ data'.availableSlots =
                      SlotsMarked(data.availableSlots,
                                  FindSlot(data.availableSlots, appt.date, appt.time), FALSE)
        /\ CancelledExisting =>
            LET index == FindIndexById(data.appointments, lastCall'.appointmentId)
                parts == Split(data.appointments[index].date)
            IN /\ lastResult'.kind = "success"
               /\ data'.appointments = RemoveAt(data.appointments, index)
               /\ data'.availableSlots =
                      SlotsMarked(data.availableSlots,
                                  FindSlot(data.availableSlots, parts[1], parts[2]), TRUE) ]_vars

\* An appointment was scheduled at 12:00, which has no slot, and one on the
\* slot of 10:00, and the second was cancelled: the first is still held and
\* the slot of 10:00, and no other slot, has been marked available
C27_Witness ==
    /\ data # NoData
    /\ lastCall.op = "cancelAppointment"
    /\ lastResult.kind = "success"
    /\ budget = MaxApptSteps - 3
    /\ lastCall.appointmentId \notin {1, 2}
    /\ Tail(data.appointments) = INITIAL_STATE.appointments
    /\ data.appointments[1].date = <<33, Space, 12>>
    /\ data.appointments[1].status = "pending"
    /\ data.availableSlots = SlotsMarked(INITIAL_STATE.availableSlots, 2, TRUE)

\* The appointments of document d booked on slot: their date is the slot's
\* date, a blank and the slot's time
BookedOn(d, slot) ==
    {i \in 1..Len(d.appointments) : d.appointments[i].date = slot.date \o <<Space>> \o slot.time}

\* C28: in every reachable state a slot on which an appointment is booked
\* has available = false, and at most one appointment is booked on a slot.
C28_SlotConsistency ==
    data # NoData =>
        \A j \in 1..Len(data.availableSlots) :
            LET booked == BookedOn(data, data.availableSlots[j])
            IN /\ booked # {} => ~data.availableSlots[j].available
               /\ Cardinality(booked) <= 1

\* C29: once reset() has succeeded (the document is null and its key was
\* removed) the save timer of an earlier mutation writes nothing to storage;
\* a reset() whose storage.clear fails leaves the document as it is and
\* publishes nothing.
C29_ResetWithPendingSave ==
    [][ /\ (now' = now /\ budget' = budget - 1 /\ lastCall'.op = "saveTimer" /\ data = NoData) =>
                storage' = storage
        /\ (Called("reset") /\ ~lastCall'.ok) =>
                (data' = data /\ storage' = storage /\ events' = <<>>) ]_vars

\* C30: analyzeEngagement() returns activeDays between 0 and 30 and an
\* engagementRate between 0 and 100 percent, whatever the times of day of
\* the feelings and journal entries of the trailing 30 days.
C30_EngagementBounds ==
    (lastCall.op = "analytics" /\ report.method = "analyzeEngagement") =>
        /\ report.activeDays \in 0..30
        /\ ParseTenths(report.engagementRate) \in 0..1000

====
